---- MODULE Spec2Model ----
(***************************************************************************)
(* A model of the chess rules engine of fwdmyr/chess: the board (sparse    *)
(* placement, one-slot move cache, en-passant target) and its single       *)
(* mutating entry point Board::advance, with the geometry (Position, Move, *)
(* path) and the piece capability predicates it rests on; the turn state   *)
(* machine Game over it; and the text parsers (Position::from_str and the  *)
(* notation tokenizer of main.rs).                                         *)
(*                                                                         *)
(* Encoding.  A Position (file, rank) is the integer rank * 8 + file.  An  *)
(* Option<T> is a set with at most one element.  A Result<(), E> is the    *)
(* string "Ok" or the name of the CatchAllError variant.  A method taking  *)
(* &mut self is an operator from a board record to [b |-> the board        *)
(* afterwards, r |-> the result]; the mutations a method makes before it   *)
(* returns an error are kept in b.                                         *)
(***************************************************************************)
EXTENDS Integers, Sequences, FiniteSets, TLC

VARIABLES pieces, cache, enpassant, last, pre, calls, turn, glast, nmoves,
          text, parsed, moved, probe, answer

vars == <<pieces, cache, enpassant, last, pre, calls, turn, glast, nmoves,
          text, parsed, moved, probe, answer>>

----------------------------------------------------------------------------
(* position.rs: squares and displacements *)

Files == 0 .. 7

Ranks == 0 .. 7

Squares == 0 .. 63

Pos(f, r) == r * 8 + f

File(p) == p % 8

Rank(p) == p \div 8

distance_to(from, to) == [file |-> File(to) - File(from), rank |-> Rank(to) - Rank(from)]

Abs(n) == IF n < 0 THEN -n ELSE n

----------------------------------------------------------------------------
(* move.rs: the move classifier *)

Straight(dir, steps, action) ==
    [shape |-> "Straight", d1 |-> dir, d2 |-> "None", steps |-> steps, action |-> action]

Diagonal(v, h, steps, action) ==
    [shape |-> "Diagonal", d1 |-> v, d2 |-> h, steps |-> steps, action |-> action]

Jump(action) ==
    [shape |-> "Jump", d1 |-> "None", d2 |-> "None", steps |-> 0, action |-> action]

Invalid ==
    [shape |-> "Invalid", d1 |-> "None", d2 |-> "None", steps |-> 0, action |-> "None"]

\* The match of Move::new on the Distance (file, rank): its arms, in order.
Classify(f, r, action) ==
        CASE f = 0 /\ r >= 1 -> Straight("Up", r, action)
          [] f = 0 /\ r <= -1 -> Straight("Down", Abs(r), action)
          [] f >= 1 /\ r = 0 -> Straight("Right", f, action)
          [] f <= -1 /\ r = 0 -> Straight("Left", Abs(f), action)
          [] f >= 1 /\ r >= 1 /\ f = r -> Diagonal("Up", "Right", r, action)
          [] f >= 1 /\ r <= -1 /\ f = -r -> Diagonal("Down", "Right", Abs(r), action)
          [] f <= -1 /\ r >= 1 /\ f = -r -> Diagonal("Up", "Left", r, action)
          [] f <= -1 /\ r <= -1 /\ f = r -> Diagonal("Down", "Left", Abs(r), action)
          [] f \in {-2, 2} /\ r \in {-1, 1} -> Jump(action)
          [] f \in {-1, 1} /\ r \in {-2, 2} -> Jump(action)
          [] OTHER -> Invalid

\* Move::new on the distance from `to` back to `from`.
MoveNewBackwards(from, to, action) ==
    Classify(distance_to(to, from).file, distance_to(to, from).rank, action)

\* Move::new
MoveNew(from, to, action) ==
    Classify(distance_to(from, to).file, distance_to(from, to).rank, action)

----------------------------------------------------------------------------
(* position.rs: the path generator.  A Rust iterator is the sequence of    *)
(* the items it yields; each path_* is the chain of adaptors of the source. *)

\* a .. b: a, a + 1, ..., b - 1 (nothing when b <= a)
Range(a, b) == [i \in 1 .. b - a |-> a + i - 1]

\* a ..= b
RangeInclusive(a, b) == [i \in 1 .. b - a + 1 |-> a + i - 1]

\* .skip(n)
Skip(s, n) == [i \in 1 .. Len(s) - n |-> s[i + n]]

\* .rev()
Rev(s) == [i \in 1 .. Len(s) |-> s[Len(s) + 1 - i]]

\* .zip(t): pairs up to the shorter of the two
Zip(s, t) == [i \in 1 .. (IF Len(s) < Len(t) THEN Len(s) ELSE Len(t)) |-> <<s[i], t[i]>>]

\* .collect(): the vector of the items
Collect(s) == SubSeq(s, 1, Len(s))

\* .map(|r| Position::new(file, r)).collect()
OnFile(file, s) == Collect([i \in 1 .. Len(s) |-> Pos(file, s[i])])

\* .map(|f| Position::new(f, rank)).collect()
OnRank(rank, s) == Collect([i \in 1 .. Len(s) |-> Pos(s[i], rank)])

\* .map(|(f, r)| Position::new(f, r)).collect()
OnPairs(s) == Collect([i \in 1 .. Len(s) |-> Pos(s[i][1], s[i][2])])

path_up(p, steps) == OnFile(File(p), Skip(Range(Rank(p), Rank(p) + steps), 1))

path_down(p, steps) == OnFile(File(p), Rev(Skip(Range(Rank(p) - steps, Rank(p)), 1)))

path_right(p, steps) == OnRank(Rank(p), Skip(Range(File(p), File(p) + steps), 1))

path_left(p, steps) == OnRank(Rank(p), Rev(Skip(Range(File(p) - steps, File(p)), 1)))

path_up_right(p, steps) ==
    OnPairs(Skip(Zip(Range(File(p), File(p) + steps), Range(Rank(p), Rank(p) + steps)), 1))

path_up_left(p, steps) ==
    OnPairs(Skip(Zip(Rev(RangeInclusive(File(p) - steps, File(p))),
                     Range(Rank(p), Rank(p) + steps)), 1))

path_down_right(p, steps) ==
    OnPairs(Skip(Zip(Range(File(p), File(p) + steps),
                     Rev(RangeInclusive(Rank(p) - steps, Rank(p)))), 1))

\* path_down_left without its .rev().
path_down_left_unreversed(p, steps) ==
    OnPairs(Skip(Zip(Range(File(p) - steps, File(p)), Range(Rank(p) - steps, Rank(p))), 1))

path_down_left(p, steps) ==
    OnPairs(Rev(Skip(Zip(Range(File(p) - steps, File(p)), Range(Rank(p) - steps, Rank(p))), 1)))

\* The unsigned subtraction rank - steps or file - steps that starts the
\* range of path_down, path_left, path_up_left, path_down_right and
\* path_down_left goes below zero.
path_underflows(p, mv) ==
    \/ mv.shape = "Straight" /\ mv.d1 = "Down" /\ Rank(p) < mv.steps
    \/ mv.shape = "Straight" /\ mv.d1 = "Left" /\ File(p) < mv.steps
    \/ mv.shape = "Diagonal" /\ mv.d1 = "Up" /\ mv.d2 = "Left" /\ File(p) < mv.steps
    \/ mv.shape = "Diagonal" /\ mv.d1 = "Down" /\ mv.d2 = "Right" /\ Rank(p) < mv.steps
    \/ mv.shape = "Diagonal" /\ mv.d1 = "Down" /\ mv.d2 = "Left"
           /\ (File(p) < mv.steps \/ Rank(p) < mv.steps)

\* The assert of Position::new fails on the last square a path_* maps: its
\* file or rank, counted up from the origin, is beyond 7.
path_off_board(p, mv) ==
    \/ mv.shape = "Straight" /\ mv.d1 = "Up" /\ Rank(p) + mv.steps - 1 > 7
    \/ mv.shape = "Straight" /\ mv.d1 = "Right" /\ File(p) + mv.steps - 1 > 7
    \/ mv.shape = "Diagonal" /\ mv.d1 = "Up" /\ Rank(p) + mv.steps - 1 > 7
    \/ mv.shape = "Diagonal" /\ mv.d2 = "Right" /\ File(p) + mv.steps - 1 > 7

\* The function f as an explicit table of its values.
Tabulated(f) == f @@ << >>

\* What the eight path_* return for every origin and every run length
\* whose interior can fit the board (at most 8: rank 0 to beyond rank 7),
\* computed once.
paths ==
    Tabulated([p \in Squares |->
        Tabulated([steps \in 1 .. 8 |->
            [up |-> path_up(p, steps), down |-> path_down(p, steps),
             right |-> path_right(p, steps), left |-> path_left(p, steps),
             up_right |-> path_up_right(p, steps), up_left |-> path_up_left(p, steps),
             down_right |-> path_down_right(p, steps),
             down_left |-> path_down_left(p, steps)]])])

\* Position::path: [r |-> "Ok", v |-> the interior squares] or InvalidPath.
\* A run that underflows or leaves the board is reported as the result
\* "Panic" (the underflow panics in a build with overflow checks; the claim
\* it matters to is about the event, not about what follows it).
path(p, mv) ==
    IF path_underflows(p, mv) \/ path_off_board(p, mv) THEN [r |-> "Panic", v |-> <<>>]
    ELSE
    CASE mv.shape = "Straight" /\ mv.d1 = "Up" -> [r |-> "Ok", v |-> paths[p][mv.steps].up]
      [] mv.shape = "Straight" /\ mv.d1 = "Down" -> [r |-> "Ok", v |-> paths[p][mv.steps].down]
      [] mv.shape = "Straight" /\ mv.d1 = "Right" -> [r |-> "Ok", v |-> paths[p][mv.steps].right]
      [] mv.shape = "Straight" /\ mv.d1 = "Left" -> [r |-> "Ok", v |-> paths[p][mv.steps].left]
      [] mv.shape = "Diagonal" /\ mv.d1 = "Up" /\ mv.d2 = "Right" ->
            [r |-> "Ok", v |-> paths[p][mv.steps].up_right]
      [] mv.shape = "Diagonal" /\ mv.d1 = "Up" /\ mv.d2 = "Left" ->
            [r |-> "Ok", v |-> paths[p][mv.steps].up_left]
      [] mv.shape = "Diagonal" /\ mv.d1 = "Down" /\ mv.d2 = "Right" ->
            [r |-> "Ok", v |-> paths[p][mv.steps].down_right]
      [] mv.shape = "Diagonal" /\ mv.d1 = "Down" /\ mv.d2 = "Left" ->
            [r |-> "Ok", v |-> paths[p][mv.steps].down_left]
      [] mv.shape = "Jump" -> [r |-> "Ok", v |-> <<>>]
      [] OTHER -> [r |-> "InvalidPath", v |-> <<>>]

----------------------------------------------------------------------------
(* piece.rs: pieces and the capability predicates *)

Colors == {"White", "Black"}

Opposite(color) == IF color = "White" THEN "Black" ELSE "White"

\* A piece is [kind, color, counter]; Knight, Bishop and Queen carry no
\* MoveCounter and keep counter 0.
Pawn(color, n) == [kind |-> "Pawn", color |-> color, counter |-> n]

Knight(color) == [kind |-> "Knight", color |-> color, counter |-> 0]

Bishop(color) == [kind |-> "Bishop", color |-> color, counter |-> 0]

Rook(color, n) == [kind |-> "Rook", color |-> color, counter |-> n]

Queen(color) == [kind |-> "Queen", color |-> color, counter |-> 0]

King(color, n) == [kind |-> "King", color |-> color, counter |-> n]

\* The value of HashMap::get on a square without an entry.
NoPiece == [kind |-> "None", color |-> "None", counter |-> 0]

HasCounter(piece) == piece.kind \in {"Pawn", "Rook", "King"}

\* Piece::update without its counter.increment().
piece_update_idle(piece) == piece

\* Piece::update: MoveCounter::increment for Pawn, Rook and King.
piece_update(piece) ==
    IF HasCounter(piece) THEN [piece EXCEPT !.counter = @ + 1] ELSE piece

\* Piece::revert: MoveCounter::decrement for Pawn, Rook and King.
piece_revert(piece) ==
    IF HasCounter(piece) THEN [piece EXCEPT !.counter = @ - 1] ELSE piece

\* Piece::can_reach_pawn with the MoveCounter(0) pattern of the two-step
\* arms replaced by a wildcard: the double push is allowed at any count.
can_reach_pawn_any_count(mv, color, counter) ==
    CASE mv.shape = "Straight" /\ mv.d1 = "Up" /\ mv.steps \in {1, 2} /\ mv.action = "Regular"
              /\ color = "White" -> "Ok"
      [] mv.shape = "Diagonal" /\ mv.d1 = "Up" /\ mv.d2 \in {"Left", "Right"}
              /\ mv.steps = 1 /\ mv.action = "Capture" /\ color = "White" -> "Ok"
      [] mv.shape = "Straight" /\ mv.d1 = "Down" /\ mv.steps \in {1, 2} /\ mv.action = "Regular"
              /\ color = "Black" -> "Ok"
      [] mv.shape = "Diagonal" /\ mv.d1 = "Down" /\ mv.d2 \in {"Left", "Right"}
              /\ mv.steps = 1 /\ mv.action = "Capture" /\ color = "Black" -> "Ok"
      [] OTHER -> "UnreachableField"

\* Piece::can_reach_pawn with the two-step arms matching a pawn that has
\* moved at most once.
can_reach_pawn_second_push(mv, color, counter) ==
    CASE mv.shape = "Straight" /\ mv.d1 = "Up" /\ mv.steps = 2 /\ mv.action = "Regular"
              /\ color = "White" /\ counter <= 1 -> "Ok"
      [] mv.shape = "Straight" /\ mv.d1 = "Up" /\ mv.steps = 1 /\ mv.action = "Regular"
              /\ color = "White" -> "Ok"
      [] mv.shape = "Diagonal" /\ mv.d1 = "Up" /\ mv.d2 \in {"Left", "Right"}
              /\ mv.steps = 1 /\ mv.action = "Capture" /\ color = "White" -> "Ok"
      [] mv.shape = "Straight" /\ mv.d1 = "Down" /\ mv.steps = 2 /\ mv.action = "Regular"
              /\ color = "Black" /\ counter <= 1 -> "Ok"
      [] mv.shape = "Straight" /\ mv.d1 = "Down" /\ mv.steps = 1 /\ mv.action = "Regular"
              /\ color = "Black" -> "Ok"
      [] mv.shape = "Diagonal" /\ mv.d1 = "Down" /\ mv.d2 \in {"Left", "Right"}
              /\ mv.steps = 1 /\ mv.action = "Capture" /\ color = "Black" -> "Ok"
      [] OTHER -> "UnreachableField"

can_reach_pawn(mv, color, counter) ==
    CASE mv.shape = "Straight" /\ mv.d1 = "Up" /\ mv.steps = 2 /\ mv.action = "Regular"
              /\ color = "White" /\ counter = 0 -> "Ok"
      [] mv.shape = "Straight" /\ mv.d1 = "Up" /\ mv.steps = 1 /\ mv.action = "Regular"
              /\ color = "White" -> "Ok"
      [] mv.shape = "Diagonal" /\ mv.d1 = "Up" /\ mv.d2 \in {"Left", "Right"}
              /\ mv.steps = 1 /\ mv.action = "Capture" /\ color = "White" -> "Ok"
      [] mv.shape = "Straight" /\ mv.d1 = "Down" /\ mv.steps = 2 /\ mv.action = "Regular"
              /\ color = "Black" /\ counter = 0 -> "Ok"
      [] mv.shape = "Straight" /\ mv.d1 = "Down" /\ mv.steps = 1 /\ mv.action = "Regular"
              /\ color = "Black" -> "Ok"
      [] mv.shape = "Diagonal" /\ mv.d1 = "Down" /\ mv.d2 \in {"Left", "Right"}
              /\ mv.steps = 1 /\ mv.action = "Capture" /\ color = "Black" -> "Ok"
      [] OTHER -> "UnreachableField"

can_reach_knight(mv) == IF mv.shape = "Jump" THEN "Ok" ELSE "UnreachableField"

can_reach_bishop(mv) == IF mv.shape = "Diagonal" THEN "Ok" ELSE "UnreachableField"

can_reach_rook(mv) == IF mv.shape = "Straight" THEN "Ok" ELSE "UnreachableField"

\* can_reach_queen without its Diagonal arm.
can_reach_queen_as_rook(mv) ==
    IF mv.shape \in {"Straight"} THEN "Ok" ELSE "UnreachableField"

can_reach_queen(mv) ==
    IF mv.shape \in {"Straight", "Diagonal"} THEN "Ok" ELSE "UnreachableField"

\* can_reach_king with the MoveCounter(0) of its two-square arms left out.
can_reach_king_any_count(mv, counter) ==
    CASE mv.shape = "Straight" /\ mv.steps = 1 -> "Ok"
      [] mv.shape = "Diagonal" /\ mv.steps = 1 -> "Ok"
      [] mv.shape = "Straight" /\ mv.d1 = "Left" /\ mv.steps = 2
              /\ mv.action = "Regular" -> "Ok"
      [] mv.shape = "Straight" /\ mv.d1 = "Right" /\ mv.steps = 2
              /\ mv.action = "Regular" -> "Ok"
      [] OTHER -> "UnreachableField"

can_reach_king(mv, counter) ==
    CASE mv.shape = "Straight" /\ mv.steps = 1 -> "Ok"
      [] mv.shape = "Diagonal" /\ mv.steps = 1 -> "Ok"
      [] mv.shape = "Straight" /\ mv.d1 = "Left" /\ mv.steps = 2
              /\ mv.action = "Regular" /\ counter = 0 -> "Ok"
      [] mv.shape = "Straight" /\ mv.d1 = "Right" /\ mv.steps = 2
              /\ mv.action = "Regular" /\ counter = 0 -> "Ok"
      [] OTHER -> "UnreachableField"

can_reach(piece, mv) ==
    CASE piece.kind = "Pawn" -> can_reach_pawn(mv, piece.color, piece.counter)
      [] piece.kind = "Knight" -> can_reach_knight(mv)
      [] piece.kind = "Bishop" -> can_reach_bishop(mv)
      [] piece.kind = "Rook" -> can_reach_rook(mv)
      [] piece.kind = "Queen" -> can_reach_queen(mv)
      [] piece.kind = "King" -> can_reach_king(mv, piece.counter)

\* Piece::all_moves: (0..8).zip(0..8) pairs i with i, so the candidate
\* targets are the eight squares (i, i); a pawn's target must pass can_reach
\* under the regular action and then under the capture action.
all_moves(piece, from) ==
    { to \in { Pos(i, i) : i \in 0 .. 7 } :
        IF piece.kind = "Pawn"
        THEN /\ \E mv \in {MoveNew(from, to, "Regular")} : can_reach(piece, mv) = "Ok"
             /\ \E mv \in {MoveNew(from, to, "Capture")} : can_reach(piece, mv) = "Ok"
        ELSE \E mv \in {MoveNew(from, to, "Regular")} : can_reach(piece, mv) = "Ok" }

----------------------------------------------------------------------------
(* board.rs: the board.  A board is the record of the three fields of      *)
(* struct Board: pieces (square -> piece or NoPiece), cache (Option of     *)
(* MoveCache) and enpassant (Option of Position).                          *)
(*                                                                         *)
(* A local `let x = e;` of the source is written Only({ ... : x \in {e} }):*)
(* x is bound to the value of e, computed once.                            *)

MoveCache(from, to, captured) == [from |-> from, to |-> to, captured |-> captured]

Board(p, c, e) == [pieces |-> p, cache |-> c, enpassant |-> e]

Some(x) == {x}

None == {}

Only(opt) == CHOOSE x \in opt : TRUE

Ret(b, r) == [b |-> b, r |-> r]

\* A Board::new with king and queen of each color on each other's square.
BoardNewKingOnD ==
    LET back == <<"Rook", "Knight", "Bishop", "King", "Queen", "Bishop", "Knight", "Rook">>
        officer(kind, color) == [kind |-> kind, color |-> color, counter |-> 0]
    IN  Board([p \in Squares |->
                  CASE Rank(p) = 0 -> officer(back[File(p) + 1], "White")
                    [] Rank(p) = 1 -> Pawn("White", 0)
                    [] Rank(p) = 6 -> Pawn("Black", 0)
                    [] Rank(p) = 7 -> officer(back[File(p) + 1], "Black")
                    [] OTHER -> NoPiece],
              None, None)

\* Board::new: the standard 32-piece layout, no cache, no en-passant target.
BoardNew ==
    LET back == <<"Rook", "Knight", "Bishop", "Queen", "King", "Bishop", "Knight", "Rook">>
        officer(kind, color) == [kind |-> kind, color |-> color, counter |-> 0]
    IN  Board([p \in Squares |->
                  CASE Rank(p) = 0 -> officer(back[File(p) + 1], "White")
                    [] Rank(p) = 1 -> Pawn("White", 0)
                    [] Rank(p) = 6 -> Pawn("Black", 0)
                    [] Rank(p) = 7 -> officer(back[File(p) + 1], "Black")
                    [] OTHER -> NoPiece],
              None, None)

\* Board::at
at(b, pos) == IF b.pieces[pos] = NoPiece THEN "EmptyField" ELSE "Ok"

\* Board::king: the squares holding color's king (find over the map: with
\* one king per color the iteration order does not matter).
king(b, color) == { p \in Squares : b.pieces[p].kind = "King" /\ b.pieces[p].color = color }

\* Board::piece_at
piece_at(b, pos, color) ==
    IF b.pieces[pos] # NoPiece /\ b.pieces[pos].color = color THEN "Ok" ELSE "EmptyField"

\* Board::action: [r, v |-> the action]
action(b, pos, color) ==
    IF b.pieces[pos] = NoPiece THEN [r |-> "Ok", v |-> "Regular"]
    ELSE IF b.pieces[pos].color # color THEN [r |-> "Ok", v |-> "Capture"]
    ELSE [r |-> "EmptyField", v |-> "None"]

\* Board::has_piece: Ok on an empty square
has_piece(b, pos) == IF b.pieces[pos] = NoPiece THEN "Ok" ELSE "BlockedPath"

\* Board::assess_move: the path, then has_piece on each of its squares.
assess_move(b, pos, mv) ==
    Only({ IF pth.r # "Ok" THEN pth.r
           ELSE IF \E i \in 1 .. Len(pth.v) : has_piece(b, pth.v[i]) # "Ok"
                THEN "BlockedPath" ELSE "Ok"
           : pth \in {path(pos, mv)} })

\* The piece inserted at `to` when update's promotion arms are left out.
placed_piece_unpromoted(piece, to) == piece

\* The piece Board::update inserts at `to`: a pawn reaching its last rank
\* is replaced by a queen.
placed_piece(piece, to) ==
    CASE piece.kind = "Pawn" /\ piece.color = "White" /\ Rank(to) = 7 -> Queen("White")
      [] piece.kind = "Pawn" /\ piece.color = "Black" /\ Rank(to) = 0 -> Queen("Black")
      [] OTHER -> piece

\* Board::update with the removal of the piece from `from` left out: the
\* moved piece then stands on both squares.
update_keeping_from(b, from, to) ==
    IF b.pieces[from] = NoPiece THEN Ret(b, "EmptyField")
    ELSE Ret(Board([b.pieces EXCEPT ![to] = placed_piece(piece_update(b.pieces[from]), to)],
                   Some(MoveCache(from, to,
                                  IF b.pieces[to] = NoPiece THEN None ELSE Some(b.pieces[to]))),
                   b.enpassant),
             "Ok")

\* Board::update
update(b, from, to) ==
    IF b.pieces[from] = NoPiece THEN Ret(b, "EmptyField")
    ELSE Ret(Board([[b.pieces EXCEPT ![from] = NoPiece]
                        EXCEPT ![to] = placed_piece(piece_update(b.pieces[from]), to)],
                   Some(MoveCache(from, to,
                                  IF b.pieces[to] = NoPiece THEN None ELSE Some(b.pieces[to]))),
                   b.enpassant),
             "Ok")

\* Board::revert without its last assignment self.cache = None: the entry
\* stays alive after it has been restored.
revert_cached_keeping_entry(b, c) ==
    IF b.pieces[c.to] = NoPiece THEN Ret(b, "EmptyField")
    ELSE IF HasCounter(b.pieces[c.to]) /\ b.pieces[c.to].counter = 0
         THEN Ret(Board([b.pieces EXCEPT ![c.to] = NoPiece], b.cache, b.enpassant), "Panic")
    ELSE Ret(Board(IF c.captured = None
                   THEN [[b.pieces EXCEPT ![c.to] = NoPiece]
                            EXCEPT ![c.from] = piece_revert(b.pieces[c.to])]
                   ELSE [[[b.pieces EXCEPT ![c.to] = NoPiece]
                            EXCEPT ![c.from] = piece_revert(b.pieces[c.to])]
                            EXCEPT ![c.to] = Only(c.captured)],
                   b.cache, b.enpassant),
             "Ok")

\* Board::revert with the cache entry c.  MoveCounter::decrement of a
\* counter that is 0 overflows (a panic in a checked build): it is reported
\* as the result "Panic".
revert_cached(b, c) ==
    IF b.pieces[c.to] = NoPiece THEN Ret(b, "EmptyField")
    ELSE IF HasCounter(b.pieces[c.to]) /\ b.pieces[c.to].counter = 0
         THEN Ret(Board([b.pieces EXCEPT ![c.to] = NoPiece], b.cache, b.enpassant), "Panic")
    ELSE Ret(Board(IF c.captured = None
                   THEN [[b.pieces EXCEPT ![c.to] = NoPiece]
                            EXCEPT ![c.from] = piece_revert(b.pieces[c.to])]
                   ELSE [[[b.pieces EXCEPT ![c.to] = NoPiece]
                            EXCEPT ![c.from] = piece_revert(b.pieces[c.to])]
                            EXCEPT ![c.to] = Only(c.captured)],
                   None, b.enpassant),
             "Ok")

\* Board::revert
revert(b) == IF b.cache = None THEN Ret(b, "EmptyMoveCache") ELSE revert_cached(b, Only(b.cache))

\* The closure of Board::in_check on the piece on p, with what it ends in:
\* "Ok" when the piece can take on pos, "Panic" when its path panics.
reach_result(b, p, pos) ==
    Only({ IF can_reach(b.pieces[p], mv) # "Ok" THEN "UnreachableField" ELSE assess_move(b, p, mv)
           : mv \in {MoveNew(p, pos, "Regular")} })

\* Whether the piece on p can take on pos: can_reach and assess_move of the
\* move from p to pos classified with the regular action.
reaches(b, p, pos) == reach_result(b, p, pos) = "Ok"

\* Board::in_check: [r, v]; NoKing when color has no king, Panic when the
\* closure panics on some piece (any() may meet that piece before it meets
\* an attacker: the map is iterated in no fixed order).
in_check(b, color) ==
    Only({ IF k = {} THEN [r |-> "NoKing", v |-> FALSE]
           ELSE Only({ [r |-> IF "Panic" \in res THEN "Panic" ELSE "Ok", v |-> "Ok" \in res]
                       : res \in {{ reach_result(b, p, Only(k)) :
                                       p \in { q \in Squares : b.pieces[q] # NoPiece
                                                               /\ b.pieces[q].color # color } }} })
           : k \in {king(b, color)} })

\* The end of Board::resolve_check: the result of in_check turned into the
\* verdict, after revert returned rv.
check_verdict(rv, res) ==
    IF rv.r # "Ok" THEN rv
    ELSE IF res.r # "Ok" THEN Ret(rv.b, res.r)
    ELSE IF res.v THEN Ret(rv.b, "InCheck")
    ELSE Ret(rv.b, "Ok")

\* Board::resolve_check: update, in_check, revert, then the verdict.
resolve_check(b, from, to, color) ==
    Only({ IF u.r # "Ok" THEN u
           ELSE Only({ check_verdict(rv, res) : res \in {in_check(u.b, color)}, rv \in {revert(u.b)} })
           : u \in {update(b, from, to)} })

\* The corner and landing squares of the match of Board::castle_rook.
rook_squares(color, direction) ==
    CASE color = "White" /\ direction = "Left" -> <<Pos(0, 0), Pos(3, 0)>>
      [] color = "White" /\ direction = "Right" -> <<Pos(7, 0), Pos(5, 0)>>
      [] color = "Black" /\ direction = "Left" -> <<Pos(0, 7), Pos(3, 7)>>
      [] color = "Black" /\ direction = "Right" -> <<Pos(7, 7), Pos(5, 7)>>
      [] OTHER -> <<>>

\* Board::castle_rook: whatever stands on the corner is removed; an unmoved
\* rook is inserted at the landing square, and the call is Ok if that
\* square was empty.
castle_rook(b, color, direction) ==
    Only({ IF sq = <<>> THEN Ret(b, "BadCastle")
           ELSE IF b.pieces[sq[1]].kind = "Rook" /\ b.pieces[sq[1]].counter = 0
                THEN Ret(Board([[b.pieces EXCEPT ![sq[1]] = NoPiece] EXCEPT ![sq[2]] = b.pieces[sq[1]]],
                               b.cache, b.enpassant),
                         IF b.pieces[sq[2]] = NoPiece THEN "Ok" ELSE "BadCastle")
                ELSE Ret(Board([b.pieces EXCEPT ![sq[1]] = NoPiece], b.cache, b.enpassant),
                         "BadCastle")
           : sq \in {rook_squares(color, direction)} })

\* try_for_each over the castle path: resolve_check(from, to) for each square
\* of the path in order, stopping at the first error.
RECURSIVE castle_path_checks(_, _, _, _, _)
castle_path_checks(b, from, pth, i, color) ==
    IF i > Len(pth) THEN Ret(b, "Ok")
    ELSE Only({ IF rc.r # "Ok" THEN rc ELSE castle_path_checks(rc.b, from, pth, i + 1, color)
                : rc \in {resolve_check(b, from, pth[i], color)} })

\* Board::resolve_castle
resolve_castle(b, piece, from, mv) ==
    IF piece.kind = "King" /\ piece.counter = 0
       /\ mv.shape = "Straight" /\ mv.steps = 2 /\ mv.action = "Regular"
    THEN Only({ IF pth.r # "Ok" THEN Ret(b, pth.r)
                ELSE Only({ IF chk.r # "Ok" THEN chk ELSE castle_rook(chk.b, piece.color, mv.d1)
                            : chk \in {castle_path_checks(b, from, Append(pth.v, from), 1,
                                                          piece.color)} })
                : pth \in {path(from, mv)} })
    ELSE Ret(b, "Ok")

\* The (from, to) pairs resolve_nomoves tries, from the clone of the map:
\* every piece of color with every square of its all_moves.  A pair is the
\* number from * 8 + i for the target (i, i).
nomoves_candidates(snapshot, color) ==
    UNION { { from * 8 + File(to) : to \in all_moves(snapshot[from], from) } :
            from \in { p \in Squares : snapshot[p] # NoPiece /\ snapshot[p].color = color } }

\* The nested any() of resolve_nomoves: resolve_check on each candidate in
\* turn, each on the board the one before left, stopping at the first Ok.
RECURSIVE nomoves_scan(_, _, _)
nomoves_scan(b, todo, color) ==
    IF todo = {} THEN Ret(b, "NoLegalMoves")
    ELSE Only({ Only({ IF rc.r \in {"Ok", "Panic"} THEN rc
                       ELSE nomoves_scan(rc.b, todo \ {k}, color)
                       : rc \in {resolve_check(b, k \div 8, Pos(k % 8, k % 8), color)} })
                : k \in {CHOOSE x \in todo : \A y \in todo : x <= y} })

\* Board::resolve_nomoves
resolve_nomoves(b, color) == nomoves_scan(b, nomoves_candidates(b.pieces, color), color)

\* The square resolve_enpassant takes the pawn from (prev_pos), if any.
enpassant_prev(b, piece, to) ==
    IF b.enpassant = None THEN None
    ELSE Only({ CASE d.file = 0 /\ d.rank = 1 /\ piece.color = "White" ->
                         Some(Pos(File(to), Rank(to) - 1))
                  [] d.file = 0 /\ d.rank = -1 /\ piece.color = "Black" ->
                         Some(Pos(File(to), Rank(to) + 1))
                  [] OTHER -> None
                : d \in {distance_to(Only(b.enpassant), to)} })

\* to.rank() - 1 underflows, or the assert of Position::new fails on
\* to.rank() + 1, in the arm resolve_enpassant takes.
enpassant_panics(b, piece, to) ==
    \E e \in b.enpassant :
        \E d \in {distance_to(e, to)} :
            \/ d.file = 0 /\ d.rank = 1 /\ piece.color = "White" /\ Rank(to) < 1
            \/ d.file = 0 /\ d.rank = -1 /\ piece.color = "Black" /\ Rank(to) + 1 > 7

\* Board::resolve_enpassant
resolve_enpassant(b, piece, to) ==
    IF enpassant_panics(b, piece, to) THEN Ret(b, "Panic") ELSE
    Only({ IF prev_pos = None THEN Ret(b, "Ok")
           ELSE IF b.pieces[Only(prev_pos)] = NoPiece THEN Ret(b, "EmptyField")
           ELSE Ret(Board([[b.pieces EXCEPT ![Only(prev_pos)] = NoPiece]
                              EXCEPT ![to] = b.pieces[Only(prev_pos)]],
                          b.cache, b.enpassant),
                    "Ok")
           : prev_pos \in {enpassant_prev(b, piece, to)} })

\* Board::enpassantable without the take() of its else arm: a move other
\* than a two-square push keeps the target.
enpassantable_keeping_target(b, piece, mv, to) ==
    IF piece.kind = "Pawn" /\ mv.shape = "Straight" /\ mv.d1 \in {"Up", "Down"}
       /\ mv.steps = 2 /\ mv.action = "Regular"
    THEN Board(b.pieces, b.cache, Some(to))
    ELSE b

\* Board::enpassantable
enpassantable(b, piece, mv, to) ==
    IF piece.kind = "Pawn" /\ mv.shape = "Straight" /\ mv.d1 \in {"Up", "Down"}
       /\ mv.steps = 2 /\ mv.action = "Regular"
    THEN Board(b.pieces, b.cache, Some(to))
    ELSE Board(b.pieces, b.cache, None)

\* Board::assess_turn from the self-check guard on: resolve_check, then
\* resolve_castle, then enpassantable.
assess_guarded(b, piece, color, from, to, mv) ==
    Only({ IF rc.r # "Ok" THEN rc
           ELSE Only({ IF cs.r # "Ok" THEN cs ELSE Ret(enpassantable(cs.b, piece, mv, to), "Ok")
                       : cs \in {resolve_castle(rc.b, piece, from, mv)} })
           : rc \in {resolve_check(b, from, to, color)} })

\* Board::assess_turn from the action classification on: action, Move::new,
\* can_reach, assess_move, then the guarded steps.
assess_classified(b, piece, color, from, to) ==
    Only({ IF act.r # "Ok" THEN Ret(b, act.r)
           ELSE Only({ IF reach # "Ok" THEN Ret(b, reach)
                       ELSE IF clear # "Ok" THEN Ret(b, clear)
                       ELSE assess_guarded(b, piece, color, from, to, mv)
                       : reach \in {can_reach(piece, mv)}, clear \in {assess_move(b, from, mv)} })
           : act \in {action(b, to, color)}, mv \in {MoveNew(from, to, action(b, to, color).v)} })

\* Board::assess_turn after its first step: nm is what resolve_nomoves
\* returned.  The steps in order, each `?` returning the error with the
\* board as the steps before it left it.
assess_turn_from(nm, color, from, to) ==
    IF nm.r # "Ok" THEN nm
    ELSE IF piece_at(nm.b, from, color) # "Ok" THEN Ret(nm.b, "EmptyField")
    ELSE Only({ IF ep.r # "Ok" THEN ep
                ELSE assess_classified(ep.b, nm.b.pieces[from], color, from, to)
                : ep \in {resolve_enpassant(nm.b, nm.b.pieces[from], to)} })

\* Board::assess_turn
assess_turn(b, color, from, to) ==
    Only({ assess_turn_from(nm, color, from, to) : nm \in {resolve_nomoves(b, color)} })

\* Board::advance after the first step of assess_turn.
advance_from(nm, color, from, to) ==
    Only({ IF t.r # "Ok" THEN t ELSE update(t.b, from, to)
           : t \in {assess_turn_from(nm, color, from, to)} })

\* Board::advance
advance(b, color, from, to) ==
    Only({ advance_from(nm, color, from, to) : nm \in {resolve_nomoves(b, color)} })

----------------------------------------------------------------------------
(* game.rs: the turn state machine over the board.  A Turn is the record   *)
(* [tag, color, from]: New(color) has no origin, Select(color, from) has   *)
(* one.                                                                    *)

New(color) == [tag |-> "New", color |-> color, from |-> None]

Select(color, pos) == [tag |-> "Select", color |-> color, from |-> Some(pos)]

\* Game::new
GameNew == [board |-> BoardNew, turn |-> New("White")]

\* A reset_turn that hands the turn to the other color.
reset_turn_flipping(t) == New(Opposite(t.color))

\* Game::reset_turn: both arms give New of the turn's color.
reset_turn(t) ==
    IF t.tag = "New" THEN New(t.color) ELSE New(t.color)

\* Piece::color
piece_color(piece) == piece.color

\* Game::select: [r, v |-> the turn returned]; board.at(pos)? fails first
\* on an empty square.
select(b, t, pos) ==
    IF t.tag = "New"
    THEN IF at(b, pos) # "Ok" THEN [r |-> at(b, pos), v |-> t]
         ELSE IF piece_color(b.pieces[pos]) = t.color
              THEN [r |-> "Ok", v |-> Select(t.color, pos)]
              ELSE [r |-> "InvalidTurn", v |-> t]
    ELSE [r |-> "InvalidTurn", v |-> t]

\* Game::play with the color match of its success arm left out: the turn
\* returned after a successful board.advance keeps the color.
play_from_keeping_color(nm, t, pos) ==
    IF t.tag = "Select"
    THEN Only({ IF a.r # "Ok" THEN [b |-> a.b, r |-> "InvalidTurn", v |-> t, call |-> a.r]
                ELSE [b |-> a.b, r |-> "Ok", v |-> New(t.color), call |-> a.r]
                : a \in {advance_from(nm, t.color, Only(t.from), pos)} })
    ELSE [b |-> nm.b, r |-> "InvalidTurn", v |-> t, call |-> "None"]

\* Game::play after the first step of board.advance (nm is what its
\* resolve_nomoves returned): [b |-> the board afterwards, r, v |-> the turn returned,
\* call |-> the result of board.advance]; map_or turns every error of
\* board.advance into InvalidTurn.
play_from(nm, t, pos) ==
    IF t.tag = "Select"
    THEN Only({ IF a.r # "Ok" THEN [b |-> a.b, r |-> "InvalidTurn", v |-> t, call |-> a.r]
                ELSE [b |-> a.b, r |-> "Ok", v |-> New(Opposite(t.color)), call |-> a.r]
                : a \in {advance_from(nm, t.color, Only(t.from), pos)} })
    ELSE [b |-> nm.b, r |-> "InvalidTurn", v |-> t, call |-> "None"]

\* The resolve_nomoves that board.advance starts with when the game calls
\* it in turn t (none is made while the turn is New).
precheck(b, t) ==
    IF t.tag = "Select" THEN resolve_nomoves(b, t.color) ELSE Ret(b, "Ok")

\* Game::play
play(b, t, pos) == Only({ play_from(nm, t, pos) : nm \in {precheck(b, t)} })

\* Game::advance: [b, turn, r, call]; the turn is assigned only when select
\* or play returned Ok.
game_advance_from(nm, b, t, pos) ==
    IF t.tag = "New"
    THEN Only({ [b |-> b, turn |-> IF sel.r = "Ok" THEN sel.v ELSE t, r |-> sel.r,
                 call |-> "None"]
                : sel \in {select(b, t, pos)} })
    ELSE Only({ [b |-> pl.b, turn |-> IF pl.r = "Ok" THEN pl.v ELSE t, r |-> pl.r,
                 call |-> pl.call]
                : pl \in {play_from(nm, t, pos)} })

\* Game::advance
game_advance(b, t, pos) ==
    Only({ game_advance_from(nm, b, t, pos) : nm \in {precheck(b, t)} })

----------------------------------------------------------------------------
(* Text input: Position's FromStr (position.rs) and the move tokenizer     *)
(* (main.rs).  A str is the sequence of its chars, a char a one-character  *)
(* string; EAcute stands for a char outside ASCII, two bytes long in       *)
(* UTF-8.  A parse returns [r |-> "Ok", "BadParse" or "Panic", v |-> the   *)
(* value].                                                                 *)

LowerCase == << "a", "b", "c", "d", "e", "f", "g", "h", "i", "j", "k", "l", "m",
                "n", "o", "p", "q", "r", "s", "t", "u", "v", "w", "x", "y", "z" >>

UpperCase == << "A", "B", "C", "D", "E", "F", "G", "H", "I", "J", "K", "L", "M",
                "N", "O", "P", "Q", "R", "S", "T", "U", "V", "W", "X", "Y", "Z" >>

Digits == << "0", "1", "2", "3", "4", "5", "6", "7", "8", "9" >>

EAcute == "eacute"

InSeq(seq, ch) == \E i \in 1 .. Len(seq) : seq[i] = ch

IndexOf(seq, ch) == CHOOSE i \in 1 .. Len(seq) : seq[i] = ch

\* `ch as usize`: the code point of a char.
code_point(ch) ==
    CASE InSeq(LowerCase, ch) -> 96 + IndexOf(LowerCase, ch)
      [] InSeq(UpperCase, ch) -> 64 + IndexOf(UpperCase, ch)
      [] InSeq(Digits, ch) -> 47 + IndexOf(Digits, ch)
      [] ch = " " -> 32
      [] ch = "#" -> 35
      [] ch = "+" -> 43
      [] ch = "-" -> 45
      [] ch = EAcute -> 233

\* The length of a char in UTF-8.
utf8_len(ch) == IF code_point(ch) < 128 THEN 1 ELSE 2

\* str::to_lowercase on a string of one ASCII char.
to_lowercase(ch) ==
    IF InSeq(UpperCase, ch) THEN LowerCase[IndexOf(UpperCase, ch)] ELSE ch

\* The slices s[0..1] (i = 1) and s[1..2] (i = 2), the former taken first:
\* the one-byte char at index i, or None where the slice panics (the string
\* is too short or a bound is not on a char boundary).
byte_slice(s, i) ==
    IF Len(s) >= i /\ \A j \in 1 .. i : utf8_len(s[j]) = 1 THEN Some(s[i]) ELSE None

\* str::parse::<usize> on a string of one char.
parse_usize(ch) == IF InSeq(Digits, ch) THEN Some(IndexOf(Digits, ch) - 1) ELSE None

\* What a usize subtraction that wraps around yields: a value of at least
\* 2^64 - 97, of which only `not below 8` is used.
WrappedAround == 1000000

\* a - b on usize: builds with overflow checks panic below zero (None),
\* the others wrap around.
usize_sub(a, b, checked) ==
    IF a >= b THEN Some(a - b) ELSE IF checked THEN None ELSE Some(WrappedAround)

ParseOk(v) == [r |-> "Ok", v |-> v]

ParseErr(e) == [r |-> e, v |-> None]

\* Position::valid
valid(file, rank) == file < 8 /\ rank < 8

\* Position::new: the assert! panics on an invalid position.
position_new(file, rank) ==
    IF valid(file, rank) THEN ParseOk(Some(Pos(file, rank))) ELSE ParseErr("Panic")

\* Position::from_str.  parse::<char> of a one-char string never fails; the
\* two subtractions are evaluated before Position::new.
position_from_str(s, checked) ==
    IF byte_slice(s, 1) = None \/ byte_slice(s, 2) = None THEN ParseErr("Panic")
    ELSE IF parse_usize(Only(byte_slice(s, 2))) = None THEN ParseErr("BadParse")
    ELSE Only({ IF file = None \/ rank = None THEN ParseErr("Panic")
                ELSE position_new(Only(file), Only(rank))
                : file \in {usize_sub(code_point(to_lowercase(Only(byte_slice(s, 1)))), 97, checked)},
                  rank \in {usize_sub(Only(parse_usize(Only(byte_slice(s, 2)))), 1, checked)} })

\* Tokens: t is the variant, kind the piece or the castle, n the index of
\* File and Rank.
PieceToken(kind) == [t |-> "Piece", kind |-> kind, n |-> 0]

FileToken(n) == [t |-> "File", kind |-> "", n |-> n]

RankToken(n) == [t |-> "Rank", kind |-> "", n |-> n]

CastleToken(kind) == [t |-> "Castle", kind |-> kind, n |-> 0]

MarkToken(t) == [t |-> t, kind |-> "", n |-> 0]

\* Piece::from_str (main.rs) on a string of one char.
piece_from_str(ch) ==
    CASE ch = "N" -> Some("Knight")
      [] ch = "B" -> Some("Bishop")
      [] ch = "R" -> Some("Rook")
      [] ch = "Q" -> Some("Queen")
      [] ch = "K" -> Some("King")
      [] OTHER -> None

\* File::from_str
file_from_str(ch) ==
    CASE ch = "a" -> Some(0) [] ch = "b" -> Some(1) [] ch = "c" -> Some(2)
      [] ch = "d" -> Some(3) [] ch = "e" -> Some(4) [] ch = "f" -> Some(5)
      [] ch = "g" -> Some(6) [] ch = "h" -> Some(7)
      [] OTHER -> None

\* Rank::from_str
rank_from_str(ch) ==
    CASE ch = "1" -> Some(0) [] ch = "2" -> Some(1) [] ch = "3" -> Some(2)
      [] ch = "4" -> Some(3) [] ch = "5" -> Some(4) [] ch = "6" -> Some(5)
      [] ch = "7" -> Some(6) [] ch = "8" -> Some(7)
      [] OTHER -> None

\* Castle::from_str
castle_from_str(s) ==
    CASE s = << "O", "-", "O" >> -> Some("Short")
      [] s = << "O", "-", "O", "-", "O" >> -> Some("Long")
      [] OTHER -> None

\* Token::from_str on a string of one char; None is Err(BadParse).
token_from_str(ch) ==
    CASE ch = "x" -> Some(MarkToken("Capture"))
      [] ch = "+" -> Some(MarkToken("Check"))
      [] ch = "#" -> Some(MarkToken("Checkmate"))
      [] OTHER ->
           IF piece_from_str(ch) # None THEN Some(PieceToken(Only(piece_from_str(ch))))
           ELSE IF file_from_str(ch) # None THEN Some(FileToken(Only(file_from_str(ch))))
           ELSE IF rank_from_str(ch) # None THEN Some(RankToken(Only(rank_from_str(ch))))
           ELSE None

\* tokenize without its castle arm.
tokenize_by_char(s) ==
    IF \E i \in 1 .. Len(s) : token_from_str(s[i]) = None THEN [r |-> "BadParse", v |-> <<>>]
    ELSE ParseOk([i \in 1 .. Len(s) |-> Only(token_from_str(s[i]))])

\* Tokenize for &str: collect() gives the first error or all the tokens.
tokenize(s) ==
    IF castle_from_str(s) # None THEN ParseOk(<< CastleToken(Only(castle_from_str(s))) >>)
    ELSE IF \E i \in 1 .. Len(s) : token_from_str(s[i]) = None THEN [r |-> "BadParse", v |-> <<>>]
    ELSE ParseOk([i \in 1 .. Len(s) |-> Only(token_from_str(s[i]))])

----------------------------------------------------------------------------
(* The state machine: a board built by Board::new and driven by calls of   *)
(* Board::advance.  pieces, cache and enpassant are the fields of the      *)
(* board; last is the latest call and its result, pre the board that call  *)
(* started from, calls the number of calls made since the initial state.   *)

\* The number of advance calls explored from each initial board.
MaxCalls == 1

\* A game so far: the moves <<from file, from rank, to file, to rank>>
\* played in turn from the new board, White first.  Every move of every
\* opening succeeds, so each board is one the program reaches.
RECURSIVE Replay(_, _, _, _)
Replay(b, moves, i, color) ==
    IF i > Len(moves) THEN Ret(b, "Ok")
    ELSE Only({ IF a.r # "Ok" THEN a ELSE Replay(a.b, moves, i + 1, Opposite(color))
                : a \in {advance(b, color, Pos(moves[i][1], moves[i][2]),
                                           Pos(moves[i][3], moves[i][4]))} })

Openings ==
    <<
       \* no move: the new board
       << >>,
       \* e2e4 a7a6 e4e5 d7d5: a Black double push beside a White pawn
       << <<4,1,4,3>>, <<0,6,0,5>>, <<4,3,4,4>>, <<3,6,3,4>> >>,
       \* a2a3 d7d5 a3a4 d5d4 e2e4: a White double push beside a Black pawn
       << <<0,1,0,2>>, <<3,6,3,4>>, <<0,2,0,3>>, <<3,4,3,3>>, <<4,1,4,3>> >>,
       \* e2e4 e7e5 g1f3 g8f6 f1c4 f8c5:
       \*   both sides may castle on the king's side
       << <<4,1,4,3>>, <<4,6,4,4>>, <<6,0,5,2>>, <<6,7,5,5>>, <<5,0,2,3>>, <<5,7,2,4>> >>,
       \* d2d4 d7d5 c1f4 c8f5 b1c3 b8c6 d1d2 d8d7:
       \*   both sides may castle on the queen's side
       << <<3,1,3,3>>, <<3,6,3,4>>, <<2,0,5,3>>, <<2,7,5,4>>, <<1,0,2,2>>, <<1,7,2,5>>, <<3,0,3,1>>, <<3,7,3,6>> >>,
       \* e2e4 b7b6 f1c4 c8a6 c4d5 h7h6 g1f3 h6h5:
       \*   the bishop on a6 attacks f1, which the White king would cross
       << <<4,1,4,3>>, <<1,6,1,5>>, <<5,0,2,3>>, <<2,7,0,5>>, <<2,3,3,4>>, <<7,6,7,5>>, <<6,0,5,2>>, <<7,5,7,4>> >>,
       \* f2f4 e7e5 g1f3 f8c5 e2e4 g8f6 f1c4 a7a6:
       \*   the bishop on c5 attacks g1, where the White king would land
       << <<5,1,5,3>>, <<4,6,4,4>>, <<6,0,5,2>>, <<5,7,2,4>>, <<4,1,4,3>>, <<6,7,5,5>>, <<5,0,2,3>>, <<0,6,0,5>> >>,
       \* e2e4 e7e5 g1f3 a7a6 f1c4 a6a5 d2d3 f8b4:
       \*   the bishop on b4 gives check to the unmoved White king
       << <<4,1,4,3>>, <<4,6,4,4>>, <<6,0,5,2>>, <<0,6,0,5>>, <<5,0,2,3>>, <<0,5,0,4>>, <<3,1,3,2>>, <<5,7,1,3>> >>,
       \* a2a4 b7b5 a4b5 c8b7 b5b6 b7c6 b6b7 c6d5:
       \*   a White pawn on b7, one step from promotion
       << <<0,1,0,3>>, <<1,6,1,4>>, <<0,3,1,4>>, <<2,7,1,6>>, <<1,4,1,5>>, <<1,6,2,5>>, <<1,5,1,6>>, <<2,5,3,4>> >>,
       \* e2e4 d7d5 e1e2 d5d4: the White king on e2 next to a Black pawn on d4
       << <<4,1,4,3>>, <<3,6,3,4>>, <<4,0,4,1>>, <<3,4,3,3>> >>,
       \* e2e4 e7e5 d1h5 e8e7 h5e5: Black is mated by the queen on e5
       << <<4,1,4,3>>, <<4,6,4,4>>, <<3,0,7,4>>, <<4,7,4,6>>, <<7,4,4,4>> >>,
       \* e2e4 d7d5 e4d5 g7g6 d1e2 g8h6 b1c3 a7a6 c3e4 a6a5 e4f6:
       \*   Black is mated by the knight on f6 (the pawn on e7 is pinned)
       << <<4,1,4,3>>, <<3,6,3,4>>, <<4,3,3,4>>, <<6,6,6,5>>, <<3,0,4,1>>, <<6,7,7,5>>, <<1,0,2,2>>, <<0,6,0,5>>, <<2,2,4,3>>, <<0,5,0,4>>, <<4,3,5,5>> >>,
       \* e2e4 e7e5 d1h5 a7a6 h5f7:
       \*   the queen on f7 gives check and the Black king may take it
       << <<4,1,4,3>>, <<4,6,4,4>>, <<3,0,7,4>>, <<0,6,0,5>>, <<7,4,5,6>> >>,
       \* d2d4 e7e5 d4e5 f8b4 c2c3 d8g5 c3b4 h7h5 c1g5 h5h4 d1d5 b7b6 d5a8 g8f6 g2g4:
       \*   Black has king, rook h8, knights, bishop c8 and pawns; White has just pushed g2g4 beside the pawn on h4
       << <<3,1,3,3>>, <<4,6,4,4>>, <<3,3,4,4>>, <<5,7,1,3>>, <<2,1,2,2>>, <<3,7,6,4>>, <<2,2,1,3>>, <<7,6,7,4>>, <<2,0,6,4>>, <<7,4,7,3>>, <<3,0,3,4>>, <<1,6,1,5>>, <<3,4,0,7>>, <<6,7,5,5>>, <<6,1,6,3>> >>,
       \* e2e4 e7e5 g1f3 g8f6 f1c4 f8c5 h1g1 h8g8 g1h1 g8h8:
       \*   both rooks of the king's side have moved and come back
       << <<4,1,4,3>>, <<4,6,4,4>>, <<6,0,5,2>>, <<6,7,5,5>>, <<5,0,2,3>>, <<5,7,2,4>>, <<7,0,6,0>>, <<7,7,6,7>>, <<6,0,7,0>>, <<6,7,7,7>> >>,
       \* f2f3 e7e5 g2g4 d8h4:
       \*   White is mated by the queen on h4; its pawns on f3 and g4 have moved
       << <<5,1,5,2>>, <<4,6,4,4>>, <<6,1,6,3>>, <<3,7,7,3>> >>,
       \* e2e4 a7a6:
       \*   the White pawn on e4 has made its double push and Black has replied
       << <<4,1,4,3>>, <<0,6,0,5>> >>,
       \* d2d4 e7e5 d4e5 d7d5:
       \*   Black has just pushed d7d5 on the file of the White queen, which is open up to d5
       << <<3,1,3,3>>, <<4,6,4,4>>, <<3,3,4,4>>, <<3,6,3,4>> >>,
       \* e2e4 g7g5 g1f3 g5g4 f1c4 g4g3 a2a3 g3h2:
       \*   a Black pawn on h2 attacks g1, where the White king would land castling
       << <<4,1,4,3>>, <<6,6,6,4>>, <<6,0,5,2>>, <<6,4,6,3>>, <<5,0,2,3>>, <<6,3,6,2>>, <<0,1,0,2>>, <<6,2,7,1>> >>,
       \* e2e4 e7e5 g1f3 g8f6 f1c4 f8c5 e1e2 e8e7 e2e1 e7e8:
       \*   both kings have moved and come back, with their king's side cleared
       << <<4,1,4,3>>, <<4,6,4,4>>, <<6,0,5,2>>, <<6,7,5,5>>, <<5,0,2,3>>, <<5,7,2,4>>, <<4,0,4,1>>, <<4,7,4,6>>, <<4,1,4,0>>, <<4,6,4,7>> >>
    >>

Played(i) == Replay(BoardNew, Openings[i], 1, "White")

InitialBoards == { g.b : g \in { h \in { Played(i) : i \in 1 .. Len(Openings) } : h.r = "Ok" } }

NoCall == [color |-> "None", from |-> 0, to |-> 0, res |-> "None"]

\* glast is the latest call made on the game: its operation, square and
\* result and the turn it started from.
NoGameCall == [op |-> "None", pos |-> 0, res |-> "None", turn |-> New("White")]

\* parsed is the latest parse of text: the function, the build and the result.
NoParse == [op |-> "None", checked |-> FALSE, res |-> ParseErr("None")]

\* probe is the input of a call of one of the pure functions of move.rs,
\* position.rs and piece.rs (kind "pair": two squares and an action for
\* Move::new; "run": an origin and a move for Position::path; "reach": a
\* piece and a move for Piece::can_reach; "origin": a piece and an origin
\* for Piece::all_moves), answer what the call returned.
NoProbe ==
    [kind |-> "None", piece |-> NoPiece, from |-> 0, to |-> 0, action |-> "None", mv |-> Invalid]

NoAnswer ==
    [op |-> "None", mv |-> Invalid, pth |-> [r |-> "None", v |-> <<>>], r |-> "None",
     squares |-> {}]

\* The squares kings and rooks start on.
Origins == {Pos(0, 0), Pos(4, 0), Pos(7, 0), Pos(0, 7), Pos(4, 7), Pos(7, 7)}

\* The origins whose piece a successful advance from `from` to `to` on
\* board b moves: `from` itself and, when a king runs two files, the
\* corner of that side, whose rook castle_rook moves.
Leaving(b, from, to) ==
    ({from} \cap Origins)
        \cup (IF /\ b.pieces[from].kind = "King" /\ Rank(to) = Rank(from)
                 /\ Abs(File(to) - File(from)) = 2
              THEN {Pos(IF File(to) > File(from) THEN 7 ELSE 0, Rank(from))}
              ELSE {})

\* The origins whose piece has moved in a game so far.
RECURSIVE Departures(_, _, _, _)
Departures(b, moves, i, color) ==
    IF i > Len(moves) THEN {}
    ELSE Leaving(b, Pos(moves[i][1], moves[i][2]), Pos(moves[i][3], moves[i][4]))
             \cup Departures(advance(b, color, Pos(moves[i][1], moves[i][2]),
                                              Pos(moves[i][3], moves[i][4])).b,
                             moves, i + 1, Opposite(color))

\* moved is the set of origins whose king or rook has made a successful
\* move since the new board.
Init ==
    \E i \in 1 .. Len(Openings) :
        \E g \in {Played(i)} :
            /\ g.r = "Ok"
            /\ pieces = g.b.pieces
            /\ cache = g.b.cache
            /\ enpassant = g.b.enpassant
            /\ last = NoCall
            /\ pre = g.b
            /\ calls = 0
            /\ turn = New("White")
            /\ glast = NoGameCall
            /\ nmoves = 0
            /\ text = <<>>
            /\ parsed = NoParse
            /\ probe = NoProbe
            /\ answer = NoAnswer
            /\ moved = Departures(BoardNew, Openings[i], 1, "White")

Current == Board(pieces, cache, enpassant)

Occupied(b) == { p \in Squares : b.pieces[p] # NoPiece }

\* The squares a call names as `from`: every occupied square and one empty
\* square (advance treats every empty `from` alike: piece_at fails).
FromSquares(b) ==
    Occupied(b) \cup
        (IF Occupied(b) = Squares THEN {}
         ELSE { CHOOSE p \in Squares \ Occupied(b) : \A q \in Squares \ Occupied(b) : p <= q })

\* The squares a call names as `to`.  Where `from` holds no piece of color,
\* assess_turn returns from piece_at before it reads `to`: the squares of
\* the file of `from` stand for all.
ToSquares(b, color, from) ==
    IF piece_at(b, from, color) = "Ok" THEN Squares
    ELSE { to \in Squares : File(to) = File(from) }

\* One call board.advance(color, from, to); nm is the result of the
\* resolve_nomoves(color) the call starts with.
Advance(nm, color, from, to) ==
    /\ \E a \in {advance_from(nm, color, from, to)} :
           /\ pieces' = a.b.pieces
           /\ cache' = a.b.cache
           /\ enpassant' = a.b.enpassant
           /\ last' = [color |-> color, from |-> from, to |-> to, res |-> a.r]
           /\ moved' = IF a.r = "Ok" THEN moved \cup Leaving(Current, from, to) ELSE moved
    /\ pre' = Current
    /\ calls' = calls + 1
    /\ UNCHANGED <<turn, glast, nmoves, text, parsed, probe, answer>>

\* A call that failed and left the board as it was leads to nothing its
\* starting board does not lead to: calls go on from the other boards.
Settled == last.res \notin {"None", "Ok"} /\ pieces = pre.pieces /\ enpassant = pre.enpassant

\* Any call of advance, while the bound on the number of calls allows one.
Call ==
    /\ calls < MaxCalls
    /\ ~Settled
    /\ \E color \in Colors :
           \E nm \in {resolve_nomoves(Current, color)} :
               \E from \in FromSquares(Current) :
                   \E to \in ToSquares(Current, color, from) :
                       Advance(nm, color, from, to)

Next == Call

Spec == Init /\ [][Next]_vars

----------------------------------------------------------------------------
(* The game: Game::new, then calls of Game::advance and Game::reset_turn.  *)
(* last and pre are the Board::advance call the latest game call made (or  *)
(* NoCall) and the board it started from; moves counts the successful      *)
(* Board::advance calls of the game.                                       *)

\* The number of game calls explored from each initial game.
MaxGameCalls == 4

\* A game so far: each opening played by pairs of Game::advance calls
\* (select the origin, play the target), White first.
GameInit ==
    \E i \in 1 .. Len(Openings) :
        \E g \in {Played(i)} :
            /\ g.r = "Ok"
            /\ pieces = g.b.pieces
            /\ cache = g.b.cache
            /\ enpassant = g.b.enpassant
            /\ last = NoCall
            /\ pre = g.b
            /\ calls = 0
            /\ turn = New(IF Len(Openings[i]) % 2 = 0 THEN GameNew.turn.color
                           ELSE Opposite(GameNew.turn.color))
            /\ glast = NoGameCall
            /\ nmoves = Len(Openings[i])
            /\ text = <<>>
            /\ parsed = NoParse
            /\ probe = NoProbe
            /\ answer = NoAnswer
            /\ moved = Departures(BoardNew, Openings[i], 1, "White")

\* A game call that changed neither the turn nor the board leads to
\* nothing the game before it does not lead to.
GameSettled ==
    /\ glast.op # "None"
    /\ turn = glast.turn
    /\ pieces = pre.pieces /\ enpassant = pre.enpassant

\* One call game.advance(pos); nm is the precheck of the board.advance it
\* makes in a Select turn.
GameAdvance(nm, pos) ==
    /\ \E g \in {game_advance_from(nm, Current, turn, pos)} :
           /\ pieces' = g.b.pieces
           /\ cache' = g.b.cache
           /\ enpassant' = g.b.enpassant
           /\ turn' = g.turn
           /\ glast' = [op |-> IF turn.tag = "New" THEN "select" ELSE "play",
                        pos |-> pos, res |-> g.r, turn |-> turn]
           /\ last' = IF g.call = "None" THEN NoCall
                      ELSE [color |-> turn.color, from |-> Only(turn.from), to |-> pos,
                            res |-> g.call]
           /\ nmoves' = IF g.call = "Ok" THEN nmoves + 1 ELSE nmoves
           /\ moved' = IF g.call = "Ok" THEN moved \cup Leaving(Current, Only(turn.from), pos)
                        ELSE moved
    /\ pre' = Current
    /\ calls' = calls + 1
    /\ UNCHANGED <<text, parsed, probe, answer>>

GameAdvanceCall ==
    /\ calls < MaxGameCalls
    /\ ~GameSettled
    /\ \E nm \in {precheck(Current, turn)} : \E pos \in Squares : GameAdvance(nm, pos)

\* One call game.reset_turn().
ResetTurnCall ==
    /\ calls < MaxGameCalls
    /\ ~GameSettled
    /\ turn' = reset_turn(turn)
    /\ glast' = [op |-> "reset", pos |-> 0, res |-> "Ok", turn |-> turn]
    /\ last' = NoCall
    /\ pre' = Current
    /\ calls' = calls + 1
    /\ UNCHANGED <<pieces, cache, enpassant, nmoves, text, parsed, moved, probe, answer>>

GameNext == GameAdvanceCall \/ ResetTurnCall

GameSpec == GameInit /\ [][GameNext]_vars

----------------------------------------------------------------------------
(* Parsing: a text, then one call of Position::from_str or of tokenize on  *)
(* it.                                                                     *)

\* The longest text built from Chars.
MaxLen == 3

\* The chars texts are built from: file letters in both cases, a letter
\* beyond h, piece letters, the marks, digits within and beyond 1 to 8, and
\* chars no token has.
Chars == { "a", "e", "h", "i", "z", "A", "H", "N", "K", "O", "x", "+", "#", "-",
           "0", "1", "4", "8", "9", EAcute }

\* Moves in algebraic notation, among them the inputs of the tests of
\* main.rs.
Notations ==
    { << "O", "-", "O" >>, << "O", "-", "O", "-", "O" >>, << "d", "x", "e", "5" >>,
      << "R", "z", "x", "9" >>, << "N", "e", "5", "#" >>, << "Q", "x", "f", "7", "+" >>,
      << "B", "b", "5" >>, << "g", "2" >>, << "c", "3", "6", "7" >> }

Texts == UNION { [1 .. n -> Chars] : n \in 0 .. MaxLen } \cup Notations

ParseInit ==
    /\ text \in Texts
    /\ parsed = NoParse
    /\ probe = NoProbe
    /\ answer = NoAnswer
    /\ pieces = BoardNew.pieces
    /\ cache = None
    /\ enpassant = None
    /\ last = NoCall
    /\ pre = BoardNew
    /\ calls = 0
    /\ turn = New("White")
    /\ glast = NoGameCall
    /\ nmoves = 0
    /\ moved = {}

\* text.parse::<Position>() in a build with or without overflow checks.
ParsePosition ==
    /\ parsed.op = "None"
    /\ \E checked \in BOOLEAN :
           parsed' = [op |-> "from_str", checked |-> checked,
                      res |-> position_from_str(text, checked)]
    /\ UNCHANGED <<pieces, cache, enpassant, last, pre, calls, turn, glast, nmoves, text, moved,
                   probe, answer>>

\* text.tokenize()
TokenizeText ==
    /\ parsed.op = "None"
    /\ parsed' = [op |-> "tokenize", checked |-> FALSE, res |-> tokenize(text)]
    /\ UNCHANGED <<pieces, cache, enpassant, last, pre, calls, turn, glast, nmoves, text, moved,
                   probe, answer>>

ParseNext == ParsePosition \/ TokenizeText

ParseSpec == ParseInit /\ [][ParseNext]_vars

----------------------------------------------------------------------------
(* The pure functions: one call of Move::new, Position::path,               *)
(* Piece::can_reach or Piece::all_moves on an input drawn at the start.     *)

\* The longest run listed and the highest move counter a piece is given.
MaxSteps == 7

MaxCount == 1

Actions == {"Regular", "Capture"}

\* The values of Move the classifier can build, with runs up to MaxSteps.
Moves ==
    { Straight(d, n, a) : d \in {"Up", "Down", "Right", "Left"}, n \in 1 .. MaxSteps, a \in Actions }
        \cup { Diagonal(v, h, n, a) : v \in {"Up", "Down"}, h \in {"Left", "Right"},
                                      n \in 1 .. MaxSteps, a \in Actions }
        \cup { Jump(a) : a \in Actions }
        \cup { Invalid }

\* The values of Piece, with counters up to MaxCount.
Pieces ==
    { Pawn(c, n) : c \in Colors, n \in 0 .. MaxCount }
        \cup { Rook(c, n) : c \in Colors, n \in 0 .. MaxCount }
        \cup { King(c, n) : c \in Colors, n \in 0 .. MaxCount }
        \cup { Knight(c) : c \in Colors } \cup { Bishop(c) : c \in Colors }
        \cup { Queen(c) : c \in Colors }

Probes ==
    { [NoProbe EXCEPT !.kind = "pair", !.from = f, !.to = t, !.action = a]
          : f \in Squares, t \in Squares, a \in Actions }
        \cup { [NoProbe EXCEPT !.kind = "run", !.from = f, !.mv = m] : f \in Squares, m \in Moves }
        \cup { [NoProbe EXCEPT !.kind = "reach", !.piece = p, !.mv = m] : p \in Pieces, m \in Moves }
        \cup { [NoProbe EXCEPT !.kind = "origin", !.piece = p, !.from = f]
                  : p \in Pieces, f \in Squares }

MoveInit ==
    /\ probe \in Probes
    /\ answer = NoAnswer
    /\ text = <<>>
    /\ parsed = NoParse
    /\ pieces = BoardNew.pieces
    /\ cache = None
    /\ enpassant = None
    /\ last = NoCall
    /\ pre = BoardNew
    /\ calls = 0
    /\ turn = New("White")
    /\ glast = NoGameCall
    /\ nmoves = 0
    /\ moved = {}

\* Move::new(from, to, action)
ClassifyMove ==
    /\ probe.kind = "pair" /\ answer.op = "None"
    /\ answer' = [NoAnswer EXCEPT !.op = "new",
                                  !.mv = MoveNew(probe.from, probe.to, probe.action)]
    /\ UNCHANGED <<pieces, cache, enpassant, last, pre, calls, turn, glast, nmoves, text,
                   parsed, moved, probe>>

\* from.path(mv)
TakePath ==
    /\ probe.kind = "run" /\ answer.op = "None"
    /\ answer' = [NoAnswer EXCEPT !.op = "path", !.pth = path(probe.from, probe.mv)]
    /\ UNCHANGED <<pieces, cache, enpassant, last, pre, calls, turn, glast, nmoves, text,
                   parsed, moved, probe>>

\* piece.can_reach(mv)
AskReach ==
    /\ probe.kind = "reach" /\ answer.op = "None"
    /\ answer' = [NoAnswer EXCEPT !.op = "can_reach", !.r = can_reach(probe.piece, probe.mv)]
    /\ UNCHANGED <<pieces, cache, enpassant, last, pre, calls, turn, glast, nmoves, text,
                   parsed, moved, probe>>

\* piece.all_moves(from)
ListMoves ==
    /\ probe.kind = "origin" /\ answer.op = "None"
    /\ answer' = [NoAnswer EXCEPT !.op = "all_moves",
                                  !.squares = all_moves(probe.piece, probe.from)]
    /\ UNCHANGED <<pieces, cache, enpassant, last, pre, calls, turn, glast, nmoves, text,
                   parsed, moved, probe>>

MoveNext == ClassifyMove \/ TakePath \/ AskReach \/ ListMoves

MoveSpec == MoveInit /\ [][MoveNext]_vars

----------------------------------------------------------------------------
(* The rules the properties below refer to, stated on a board b.           *)

\* The piece on s could capture on target: its capture pattern (section 4.3:
\* a pawn one step diagonally forward, a king one step) matches the
\* displacement and every interior square of a run is empty.
Attacks(b, s, target) ==
    \E mv \in {MoveNew(s, target, "Capture")} :
        can_reach(b.pieces[s], mv) = "Ok" /\ assess_move(b, s, mv) = "Ok"

\* Some piece of the opponent of color could capture on target.
Attacked(b, target, color) ==
    \E s \in Squares : b.pieces[s].color = Opposite(color) /\ Attacks(b, s, target)

\* color's king is attacked.
KingAttacked(b, color) == \E k \in king(b, color) : Attacked(b, k, color)

\* The latest call, when there is one.
Called == last.res # "None"

\* The home rank of color.
HomeRank(color) == IF color = "White" THEN 0 ELSE 7

\* The rank a pawn of color promotes on.
FarthestRank(color) == IF color = "White" THEN 7 ELSE 0

\* The rank step of a pawn of color.
Forward(color) == IF color = "White" THEN 1 ELSE -1

----------------------------------------------------------------------------
(* Properties of Board::advance.                                           *)

\* C1: whenever advance returns an error, the board is the board before the
\* call: the same piece (kind, color, move counter) on every square and the
\* same en-passant target.
FailedAdvanceKeepsBoard ==
    (Called /\ last.res # "Ok") => (pieces = pre.pieces /\ enpassant = pre.enpassant)

\* The latest call was a king's two-file move along its rank.
KingTwoFiles ==
    /\ pre.pieces[last.from].kind = "King"
    /\ Rank(last.to) = Rank(last.from)
    /\ Abs(File(last.to) - File(last.from)) = 2

\* The corner and the crossed square on the side the king of the latest
\* call moved to.
CastleSide ==
    IF File(last.to) > File(last.from)
    THEN {Pos(7, Rank(last.from)), Pos(5, Rank(last.from))}
    ELSE {Pos(0, Rank(last.from)), Pos(3, Rank(last.from))}

\* The latest call moved onto the square directly behind the en-passant
\* target, seen from the mover.
OntoPassedSquare ==
    \E p \in pre.enpassant :
        File(last.to) = File(p) /\ Rank(last.to) = Rank(p) + Forward(last.color)

\* The squares a successful call may change.
TouchedSquares ==
    {last.from, last.to}
        \cup (IF KingTwoFiles THEN CastleSide ELSE {})
        \cup (IF OntoPassedSquare THEN pre.enpassant ELSE {})

\* The kind the moved piece has on `to`.
ArrivedKind ==
    IF pre.pieces[last.from].kind = "Pawn" /\ Rank(last.to) = FarthestRank(last.color)
    THEN "Queen" ELSE pre.pieces[last.from].kind

----------------------------------------------------------------------------
(* Properties of update/revert and of in_check.                            *)

\* C3: for every occupied square `from` and every square `to`, update(from,
\* to) followed at once by revert() restores the placement (kind and color
\* on every square), every move counter and the en-passant target.
UpdateRevertRoundTrip ==
    \A from \in Occupied(Current) : \A to \in Squares :
        \E u \in {update(Current, from, to)} :
            /\ u.r = "Ok"
            /\ \E rv \in {revert(u.b)} :
                   rv.r = "Ok" /\ rv.b.pieces = pieces /\ rv.b.enpassant = enpassant

\* C4: after every successful advance the mover's own king is not attacked
\* (no opposing piece could capture on its square: a pawn one step
\* diagonally forward, a sliding piece through empty interior squares), so
\* a move that would leave it attacked does not succeed.
SuccessLeavesKingSafe ==
    (Called /\ last.res = "Ok") => ~KingAttacked(Current, last.color)

\* C5: in_check(color) is true exactly when some opposing piece has a
\* capturing line to color's king square, in every position where color has
\* a king.
InCheckIffAttacked ==
    \A color \in Colors :
        king(Current, color) # {} =>
            /\ in_check(Current, color).r = "Ok"
            /\ in_check(Current, color).v = KingAttacked(Current, color)

----------------------------------------------------------------------------
(* Properties of the no-legal-moves precheck.                              *)

\* The piece of color on `from` may move to `to` by the movement rules:
\* ownership, action classification, reachability and obstruction (the
\* king's two-file run is castling and is not counted here).
RuleMove(b, color, from, to) ==
    /\ piece_at(b, from, color) = "Ok"
    /\ \E act \in {action(b, to, color)} :
           /\ act.r = "Ok"
           /\ \E mv \in {MoveNew(from, to, act.v)} :
                  /\ can_reach(b.pieces[from], mv) = "Ok"
                  /\ assess_move(b, from, mv) = "Ok"
                  /\ ~(b.pieces[from].kind = "King" /\ mv.steps = 2)

\* The board after the pawn on `from` takes the pawn on the en-passant
\* target p in passing.
TakenInPassing(b, from, p) ==
    [[[b.pieces EXCEPT ![p] = NoPiece]
          EXCEPT ![Pos(File(p), Rank(p) + Forward(b.pieces[from].color))] = b.pieces[from]]
          EXCEPT ![from] = NoPiece]

\* The pawn of color on `from` stands beside the en-passant target p, a
\* pawn of the opponent.
BesidePushedPawn(b, color, from, p) ==
    /\ b.pieces[from].kind = "Pawn" /\ b.pieces[from].color = color
    /\ b.pieces[p].kind = "Pawn" /\ b.pieces[p].color = Opposite(color)
    /\ Rank(from) = Rank(p) /\ Abs(File(from) - File(p)) = 1

\* Some move of color leaves color's king unattacked.
HasEscape(b, color) ==
    \/ \E from \in Squares : \E to \in Squares :
           /\ RuleMove(b, color, from, to)
           /\ ~KingAttacked(update(b, from, to).b, color)
    \/ \E p \in b.enpassant : \E from \in Squares :
           /\ BesidePushedPawn(b, color, from, p)
           /\ ~KingAttacked(Board(TakenInPassing(b, from, p), None, None), color)

\* C6: where color's king is in check and no move of color escapes the
\* check, every call advance(color, from, to) fails with NoLegalMoves.
MatedCallFailsNoLegalMoves ==
    (Called /\ KingAttacked(pre, last.color) /\ ~HasEscape(pre, last.color))
        => last.res = "NoLegalMoves"

\* The move of color from `from` to `to` passes ownership, action
\* classification, reachability, obstruction and the self-check guard.
PassesSteps(b, color, from, to) ==
    /\ piece_at(b, from, color) = "Ok"
    /\ \E act \in {action(b, to, color)} :
           /\ act.r = "Ok"
           /\ \E mv \in {MoveNew(from, to, act.v)} :
                  /\ can_reach(b.pieces[from], mv) = "Ok"
                  /\ assess_move(b, from, mv) = "Ok"
    /\ resolve_check(b, from, to, color).r = "Ok"

\* C7: advance fails with NoLegalMoves only if color has no move at all
\* that passes ownership, action classification, reachability, obstruction
\* and the self-check guard.
NoLegalMovesOnlyWithoutMove ==
    (Called /\ last.res = "NoLegalMoves")
        => ~\E from \in Squares : \E to \in Squares : PassesSteps(pre, last.color, from, to)

----------------------------------------------------------------------------
(* Properties of castling and of the capture in passing.                   *)

\* The squares of castling for color toward the higher files (side = 1) or
\* the lower files (side = -1): the king's start, the square it crosses,
\* the square it lands on and the rook's corner.
KingStart(color) == Pos(4, HomeRank(color))

Crossed(color, side) == Pos(4 + side, HomeRank(color))

Landing(color, side) == Pos(4 + 2 * side, HomeRank(color))

Corner(color, side) == Pos(IF side = 1 THEN 7 ELSE 0, HomeRank(color))

\* The squares strictly between the king and the rook of that side.
Between(color, side) ==
    { p \in Squares : /\ Rank(p) = HomeRank(color)
                      /\ IF side = 1 THEN File(p) \in 5 .. 6 ELSE File(p) \in 1 .. 3 }

\* Castling of color on that side is valid but for the safety of the king's
\* squares: king and rook unmoved, every square between them empty.
CastleSetUp(b, color, side) ==
    /\ b.pieces[KingStart(color)] = King(color, 0)
    /\ b.pieces[Corner(color, side)] = Rook(color, 0)
    /\ \A p \in Between(color, side) : b.pieces[p] = NoPiece

\* One of the king's start, crossed and landing squares is attacked.
CastleSquareAttacked(b, color, side) ==
    \E p \in {KingStart(color), Crossed(color, side), Landing(color, side)} :
        Attacked(b, p, color)

\* The latest call asked color's king to castle on that side.
CastleCall(side) ==
    /\ Called
    /\ last.from = KingStart(last.color)
    /\ last.to = Landing(last.color, side)

\* C8: if a color's king and the rook of the chosen side are unmoved, every
\* square between them is empty and the king's start, crossed and landing
\* squares are not attacked, advancing the king two files toward that rook
\* succeeds and leaves the king two files over and the rook on the square
\* the king crossed.
CastlingSucceeds ==
    \A side \in {-1, 1} :
        (/\ CastleCall(side)
         /\ CastleSetUp(pre, last.color, side)
         /\ ~CastleSquareAttacked(pre, last.color, side))
            => /\ last.res = "Ok"
               /\ pieces[last.to].kind = "King" /\ pieces[last.to].color = last.color
               /\ pieces[Crossed(last.color, side)].kind = "Rook"
               /\ pieces[Crossed(last.color, side)].color = last.color

\* C9: if in an otherwise valid castling attempt the king's landing square,
\* the square it crosses or its start square is attacked, advance fails
\* with BadCastle.
AttackedCastleIsBadCastle ==
    \A side \in {-1, 1} :
        (/\ CastleCall(side)
         /\ CastleSetUp(pre, last.color, side)
         /\ CastleSquareAttacked(pre, last.color, side))
            => last.res = "BadCastle"

\* The latest call asked the pawn on `from` to take the just pushed pawn on
\* the en-passant target p in passing, and taking it leaves the mover's
\* king unattacked.
PassingCall(p) ==
    /\ Called
    /\ BesidePushedPawn(pre, last.color, last.from, p)
    /\ last.to = Pos(File(p), Rank(p) + Forward(last.color))
    /\ ~KingAttacked(Board(TakenInPassing(pre, last.from, p), None, None), last.color)

\* C10: right after a pawn's two-square push, an opposing pawn beside it on
\* the same rank may step diagonally forward onto the square directly
\* behind it: the call succeeds, the capturing pawn ends on that square and
\* the pushed pawn is no longer on the board.
PassingCaptureSucceeds ==
    \A p \in pre.enpassant :
        PassingCall(p) =>
            /\ last.res = "Ok"
            /\ pieces[last.to].kind = "Pawn" /\ pieces[last.to].color = last.color
            /\ pieces[p] = NoPiece
            /\ Cardinality({ q \in Squares : pieces[q].kind = "Pawn"
                                               /\ pieces[q].color = Opposite(last.color) })
                 + 1 = Cardinality({ q \in Squares : pre.pieces[q].kind = "Pawn"
                                               /\ pre.pieces[q].color = Opposite(last.color) })

----------------------------------------------------------------------------
(* Properties of the pawn's double push.                                   *)

\* The latest call asked a pawn of its color to go two squares forward.
TwoSquarePush ==
    /\ Called
    /\ pre.pieces[last.from].kind = "Pawn" /\ pre.pieces[last.from].color = last.color
    /\ File(last.to) = File(last.from)
    /\ Rank(last.to) = Rank(last.from) + 2 * Forward(last.color)

\* The two squares ahead of the pawn of the latest call were empty.
TwoAheadEmpty ==
    /\ pre.pieces[last.to] = NoPiece
    /\ pre.pieces[Pos(File(last.from), Rank(last.from) + Forward(last.color))] = NoPiece

OntoOwnPassedSquare ==
    \E p \in pre.enpassant :
        /\ File(last.to) = File(p) /\ Rank(last.to) = Rank(p) + Forward(last.color)
        /\ pre.pieces[p].color # Opposite(last.color)

\* The action classification of the latest call rejected `to`: it holds a
\* piece of the mover's color, also when resolve_enpassant put one there.
OwnPieceOnTo == pre.pieces[last.to].color = last.color \/ OntoOwnPassedSquare

AfterE4Reply == Replay(BoardNew, << <<4, 1, 4, 3>>, <<0, 6, 0, 5>> >>, 1, "White").b

\* The latest call was advance(White, from, to).
WhiteCall(from, to) ==
    Called /\ last.color = "White" /\ last.from = from /\ last.to = to

\* C12 as stated: from the starting position advance(White, e2, e4)
\* succeeds, and a later advance(White, e4, e5) for that pawn fails with
\* UnreachableField.
E4ThenE5Unreachable ==
    /\ (WhiteCall(Pos(4, 1), Pos(4, 3)) /\ pre.pieces = BoardNew.pieces) => last.res = "Ok"
    /\ (WhiteCall(Pos(4, 3), Pos(4, 4)) /\ pre = AfterE4Reply) => last.res = "UnreachableField"

\* C12, amended: from the starting position advance(White, e2, e4) succeeds
\* and puts the pawn, moved once, on e4; after Black's reply the one-step
\* advance(White, e4, e5) for that pawn succeeds, and its two-square push
\* advance(White, e4, e6) fails with UnreachableField.
E4ThenE6Unreachable ==
    /\ (WhiteCall(Pos(4, 1), Pos(4, 3)) /\ pre.pieces = BoardNew.pieces)
           => (last.res = "Ok" /\ pieces[Pos(4, 3)] = Pawn("White", 1))
    /\ (WhiteCall(Pos(4, 3), Pos(4, 4)) /\ pre = AfterE4Reply)
           => (last.res = "Ok" /\ pieces[Pos(4, 4)] = Pawn("White", 2))
    /\ (WhiteCall(Pos(4, 3), Pos(4, 5)) /\ pre = AfterE4Reply)
           => (last.res = "UnreachableField" /\ pieces = pre.pieces)

\* The pawn that went e2e4 was asked e4e6 after Black's reply and the call
\* failed with UnreachableField.
E4ThenE6Witness ==
    /\ WhiteCall(Pos(4, 3), Pos(4, 5)) /\ pre = AfterE4Reply
    /\ pre.pieces[Pos(4, 3)] = Pawn("White", 1)
    /\ last.res = "UnreachableField"

----------------------------------------------------------------------------
(* Properties of obstruction, promotion, ownership and the classification  *)
(* of the target.                                                          *)

Sgn(n) == IF n > 0 THEN 1 ELSE IF n < 0 THEN -1 ELSE 0

\* The larger of the file and rank distances between two squares.
Span(from, to) ==
    IF Abs(File(to) - File(from)) > Abs(Rank(to) - Rank(from))
    THEN Abs(File(to) - File(from)) ELSE Abs(Rank(to) - Rank(from))

\* from and to lie on one file, rank or diagonal.
Aligned(from, to) ==
    /\ from # to
    /\ \/ File(to) = File(from)
       \/ Rank(to) = Rank(from)
       \/ Abs(File(to) - File(from)) = Abs(Rank(to) - Rank(from))

\* The squares strictly between from and to on their line.
Interior(from, to) ==
    IF Aligned(from, to)
    THEN { Pos(File(from) + k * Sgn(File(to) - File(from)),
               Rank(from) + k * Sgn(Rank(to) - Rank(from))) : k \in 1 .. Span(from, to) - 1 }
    ELSE {}

\* from and to are a knight's jump apart.
KnightJump(from, to) ==
    {Abs(File(to) - File(from)), Abs(Rank(to) - Rank(from))} = {1, 2}

\* C13: no successful advance moves a piece onto a square occupied by a
\* piece of its own color; a straight or diagonal move with an occupied
\* square strictly between from and to never succeeds; a knight jump is
\* never rejected with BlockedPath.
BlockedPathInvariant ==
    Called =>
        /\ last.res = "Ok" => pre.pieces[last.to].color # last.color
        /\ (\E p \in Interior(last.from, last.to) : pre.pieces[p] # NoPiece) => last.res # "Ok"
        /\ (pre.pieces[last.from].kind = "Knight" /\ KnightJump(last.from, last.to))
               => last.res # "BlockedPath"

\* The latest call succeeded and took a pawn to its farthest rank.
PawnArrived ==
    /\ Called /\ last.res = "Ok"
    /\ pre.pieces[last.from].kind = "Pawn"
    /\ Rank(last.to) = FarthestRank(last.color)

\* C18: when a successful advance lands a pawn on its farthest rank (7 for
\* White, 0 for Black) the target holds a queen of that color afterwards,
\* and in no reachable state does a pawn stand on its farthest rank.
PromotionToQueen ==
    /\ PawnArrived => pieces[last.to] = Queen(last.color)
    /\ \A f \in Files :
           /\ ~(pieces[Pos(f, 7)].kind = "Pawn" /\ pieces[Pos(f, 7)].color = "White")
           /\ ~(pieces[Pos(f, 0)].kind = "Pawn" /\ pieces[Pos(f, 0)].color = "Black")

\* A pawn arrived on its farthest rank and a queen stands there.
PromotionWitness == PawnArrived /\ pieces[last.to].kind = "Queen"

(***************************************************************************)
(* Properties of the turn state machine, checked under GameSpec.  There    *)
(* glast records the latest Game call with the turn it found, pre is the   *)
(* board it found and last is the Board::advance call it made, if any.     *)
(***************************************************************************)

\* The latest Game call was an advance in the turn state New.
Selected == glast.op = "select"

\* The latest Game call was an advance in the turn state Select.
PlayedOn == glast.op = "play"

\* The square the latest Game call named held a piece of the active color.
OwnSquare ==
    /\ pre.pieces[glast.pos] # NoPiece
    /\ pre.pieces[glast.pos].color = glast.turn.color

\* C14: in New(color), Game.advance(square) succeeds exactly when the square
\* holds a piece of color and the turn becomes Select(color, square); on an
\* empty square or a piece of the other color it fails with InvalidTurn and
\* the turn stays New(color); the board is not modified in either case.
SelectContract ==
    Selected =>
        /\ (glast.res = "Ok") <=> OwnSquare
        /\ OwnSquare => turn = Select(glast.turn.color, glast.pos)
        /\ ~OwnSquare => glast.res = "InvalidTurn" /\ turn = glast.turn
        /\ Current = pre

\* C15: in Select(color, from), Game.advance(square) calls
\* Board.advance(color, from, square); on success the turn becomes
\* New(opposite color); on failure Game.advance returns the error that
\* Board.advance produced and the turn stays Select(color, from).
PlayContract ==
    PlayedOn =>
        /\ last.color = glast.turn.color
        /\ last.from = Only(glast.turn.from)
        /\ last.to = glast.pos
        /\ last.res = "Ok" =>
               glast.res = "Ok" /\ turn = New(Opposite(glast.turn.color))
        /\ last.res # "Ok" => glast.res = last.res /\ turn = glast.turn

\* The latest Game call was reset_turn.
WasReset == glast.op = "reset"

\* C16: reset_turn maps Select(color, _) to New(color) and leaves New(color)
\* as it is; it changes neither the active color nor the board, its cache
\* or the en-passant target.
ResetTurnContract ==
    WasReset =>
        /\ turn = New(glast.turn.color)
        /\ glast.turn.tag = "New" => turn = glast.turn
        /\ pieces = pre.pieces
        /\ cache = pre.cache
        /\ enpassant = pre.enpassant

\* reset_turn was called with a square selected.
ResetTurnWitness == WasReset /\ glast.turn.tag = "Select" /\ turn.tag = "New"

\* The color whose turn it is.
ActiveColor == turn.color

\* The color to move after n successful moves of a game.
ColorAfter(n) == IF n % 2 = 0 THEN "White" ELSE "Black"

\* C17: over any sequence of Game.advance and reset_turn calls the active
\* color is White before the first successful move and flips exactly when
\* a Board.advance call succeeds: successful moves alternate White, Black,
\* White, ..., each made by the active color, and no failed call and no
\* reset_turn changes the active color.
ActiveColorAlternates ==
    /\ [](nmoves = 0 => ActiveColor = "White")
    /\ [](ActiveColor = ColorAfter(nmoves))
    /\ [][(ActiveColor' # ActiveColor) <=> (last'.res = "Ok")]_vars
    /\ [][last'.res = "Ok" => last'.color = ActiveColor]_vars

\* A Board.advance made through the game succeeded and the turn went to
\* the other color.
ActiveColorWitness ==
    /\ PlayedOn /\ last.res = "Ok"
    /\ turn = New(Opposite(glast.turn.color))

\* `from` of the latest call held a piece of the color the call named.
FromOwn ==
    pre.pieces[last.from] # NoPiece /\ pre.pieces[last.from].color = last.color

\* `to` of the latest call held a piece of the color the call named.
ToOwn ==
    pre.pieces[last.to] # NoPiece /\ pre.pieces[last.to].color = last.color

\* C19: when color has a legal move, advance(color, from, to) fails with
\* EmptyField if `from` is empty or holds a piece of the other color; and a
\* piece of the other color standing on `from` is never moved by the call.
OwnershipContract ==
    Called =>
        /\ (HasEscape(pre, last.color) /\ ~FromOwn) => last.res = "EmptyField"
        /\ (pre.pieces[last.from] # NoPiece /\ ~FromOwn) =>
               pieces[last.from] = pre.pieces[last.from]

\* C20: when `from` holds a piece of color, color has a legal move and `to`
\* holds a piece of color too, advance(color, from, to) fails with
\* BlockedPath.
OwnTargetBlockedPath ==
    (Called /\ FromOwn /\ ToOwn /\ HasEscape(pre, last.color))
        => last.res = "BlockedPath"

(***************************************************************************)
(* Properties of move classification, of the en-passant target and of      *)
(* castling rights, checked under Spec.                                    *)
(***************************************************************************)

\* The displacement of the latest call is none of the shapes of Move::new.
NoShape == MoveNew(last.from, last.to, "Regular") = Invalid

\* The displacement of the latest call has a shape, and the piece on `from`
\* can make it neither as a regular move nor as a capture.
ShapeOutOfReach ==
    /\ ~NoShape
    /\ can_reach(pre.pieces[last.from], MoveNew(last.from, last.to, "Regular")) # "Ok"
    /\ can_reach(pre.pieces[last.from], MoveNew(last.from, last.to, "Capture")) # "Ok"

\* C21: when `from` holds a piece of color, `to` holds no piece of color and
\* color has a legal move, advance fails with InvalidPath if the
\* displacement matches no move shape, and with UnreachableField if it is
\* a shape the piece cannot make.
ShapelessIsInvalidPath ==
    (Called /\ FromOwn /\ ~ToOwn /\ HasEscape(pre, last.color)) =>
        /\ NoShape => last.res = "InvalidPath"
        /\ ShapeOutOfReach => last.res = "UnreachableField"

(***************************************************************************)
(* Properties of the parsers, checked under ParseSpec.                     *)
(***************************************************************************)

\* The file letters a to h and the rank digits 1 to 8, in order.
FileLetters == SubSeq(LowerCase, 1, 8)

FileCapitals == SubSeq(UpperCase, 1, 8)

RankDigits == SubSeq(Digits, 2, 9)

\* A text of two chars: a file letter in either case and a rank digit.
SquareToken(s) ==
    /\ Len(s) = 2
    /\ InSeq(FileLetters, s[1]) \/ InSeq(FileCapitals, s[1])
    /\ InSeq(RankDigits, s[2])

\* The square such a text names.
NamedSquare(s) ==
    Pos(IF InSeq(FileLetters, s[1]) THEN IndexOf(FileLetters, s[1]) - 1
        ELSE IndexOf(FileCapitals, s[1]) - 1,
        IndexOf(RankDigits, s[2]) - 1)

\* C22: parsing a square succeeds exactly for a two-character text of a
\* file letter a to h (either case) and a rank digit 1 to 8, and then
\* yields the zero-based (file, rank); for every other text the parse
\* returns BadParse.
SquareParseContract ==
    parsed.op = "from_str" =>
        IF SquareToken(text) THEN parsed.res = ParseOk(Some(NamedSquare(text)))
        ELSE parsed.res.r = "BadParse"

(***************************************************************************)
(* The new game, checked under GameSpec.                                   *)
(***************************************************************************)

\* No call has been made on the game and no move played: the game is as
\* Game::new left it.
JustCreated == nmoves = 0 /\ calls = 0

\* The kinds on the first and the eighth rank, from the a-file to the h-file.
BackRank == << "Rook", "Knight", "Bishop", "Queen", "King", "Bishop", "Knight", "Rook" >>

\* The squares holding a piece of color.
Army(color) == { p \in Squares : pieces[p] # NoPiece /\ pieces[p].color = color }

\* The standard starting layout with every move counter at 0.
StandardLayout ==
    /\ \A f \in Files :
           /\ pieces[Pos(f, 0)].kind = BackRank[f + 1] /\ pieces[Pos(f, 0)].color = "White"
           /\ pieces[Pos(f, 1)].kind = "Pawn" /\ pieces[Pos(f, 1)].color = "White"
           /\ pieces[Pos(f, 6)].kind = "Pawn" /\ pieces[Pos(f, 6)].color = "Black"
           /\ pieces[Pos(f, 7)].kind = BackRank[f + 1] /\ pieces[Pos(f, 7)].color = "Black"
    /\ \A p \in Squares : Rank(p) \in 2 .. 5 => pieces[p] = NoPiece
    /\ \A color \in Colors :
           /\ Cardinality(Army(color)) = 16
           /\ Cardinality({ p \in Army(color) : pieces[p].kind = "King" }) = 1
    /\ \A p \in Squares :
           pieces[p].kind \in {"Pawn", "Rook", "King"} => pieces[p].counter = 0

\* C23: a new Game is in turn state New(White) on the standard 32-piece
\* layout: 16 pieces per color on their standard squares, one king per
\* color, every Pawn, Rook and King counter 0, no en-passant target and an
\* empty move cache.
NewGameLayout ==
    JustCreated =>
        /\ turn = New("White")
        /\ StandardLayout
        /\ enpassant = None
        /\ cache = None

\* The new game, with the White king on e1 and the Black queen on d8.
NewGameWitness ==
    /\ JustCreated /\ glast.op = "None"
    /\ pieces[Pos(4, 0)] = King("White", 0) /\ pieces[Pos(3, 7)] = Queen("Black")

(***************************************************************************)
(* The tokenizer, checked under ParseSpec.                                 *)
(***************************************************************************)

\* The piece letters and the kinds they stand for.
PieceLetters == << "N", "B", "R", "Q", "K" >>

PieceKinds == << "Knight", "Bishop", "Rook", "Queen", "King" >>

\* The token a char stands for, if any.
CharToken(ch) ==
    IF InSeq(PieceLetters, ch) THEN Some(PieceToken(PieceKinds[IndexOf(PieceLetters, ch)]))
    ELSE IF InSeq(FileLetters, ch) THEN Some(FileToken(IndexOf(FileLetters, ch) - 1))
    ELSE IF InSeq(RankDigits, ch) THEN Some(RankToken(IndexOf(RankDigits, ch) - 1))
    ELSE IF ch = "x" THEN Some(MarkToken("Capture"))
    ELSE IF ch = "+" THEN Some(MarkToken("Check"))
    ELSE IF ch = "#" THEN Some(MarkToken("Checkmate"))
    ELSE None

ShortCastle == << "O", "-", "O" >>

LongCastle == << "O", "-", "O", "-", "O" >>

PawnDiagonalStep ==
    /\ FromOwn /\ pre.pieces[last.from].kind = "Pawn"
    /\ Rank(last.to) = Rank(last.from) + Forward(last.color)
    /\ Abs(File(last.to) - File(last.from)) = 1

\* C25: the pushed pawn is removed or relocated only for a pawn's one-step
\* diagonal forward move onto the square directly behind it: a call that
\* names that square for a piece of another kind, or for a move that is not
\* such a diagonal step, leaves the pushed pawn where it is.
PassingOnlyByPawnDiagonal ==
    (Called /\ OntoPassedSquare /\ ~PawnDiagonalStep) =>
        \A p \in pre.enpassant : pieces[p] = pre.pieces[p]

\* The latest call asked a pawn of its color to run two squares along its
\* file.
PawnDoubleStep ==
    /\ FromOwn /\ pre.pieces[last.from].kind = "Pawn"
    /\ File(last.to) = File(last.from)
    /\ Abs(Rank(last.to) - Rank(last.from)) = 2

\* The squares other than `to` from which a piece of the opponent has gone.
TakenAside ==
    { q \in Squares \ {last.to} :
        /\ pre.pieces[q] # NoPiece /\ pre.pieces[q].color = Opposite(last.color)
        /\ pieces[q] = NoPiece }

\* C26: after every successful advance the en-passant target is `to` if the
\* move was a pawn's two-square push and empty otherwise; so a piece is
\* taken from a square other than `to` only while it is the target, that
\* is by the first successful move after its push.
TargetOnlyAfterPush ==
    (Called /\ last.res = "Ok") =>
        /\ enpassant = IF PawnDoubleStep THEN Some(last.to) ELSE None
        /\ TakenAside \subseteq pre.enpassant

\* A two-square push succeeded while an earlier push was the target: the
\* target is now the new `to` and no longer the earlier pawn.
TargetReplacedWitness ==
    /\ Called /\ last.res = "Ok" /\ PawnDoubleStep
    /\ pre.enpassant # None /\ enpassant = Some(last.to)
    /\ pre.enpassant # enpassant

\* The square directly behind the pushed pawn on p, seen from the mover of
\* the latest call.
Behind(p) == Pos(File(p), Rank(p) + Forward(last.color))

\* The latest call failed after its en-passant resolution: `from` held a
\* piece of the color and the error is none of the steps before.
FailedAfterResolution ==
    /\ Called /\ FromOwn
    /\ last.res \notin {"Ok", "NoLegalMoves"}

\* C27: when advance fails at a step that follows en-passant resolution, the
\* pushed pawn is still on the square it was pushed to, the square behind
\* it holds what it held and the en-passant target is unchanged.
FailureKeepsPushedPawn ==
    FailedAfterResolution =>
        /\ enpassant = pre.enpassant
        /\ \A p \in pre.enpassant :
               /\ pieces[p] = pre.pieces[p]
               /\ Rank(p) \in 1 .. 6 => pieces[Behind(p)] = pre.pieces[Behind(p)]

\* The latest call asked color's unmoved king to castle on that side, the
\* squares it crosses and lands on being empty and, with its start, not
\* attacked, while the corner of that side holds no unmoved rook of color.
CastleWithoutRook(side) ==
    /\ CastleCall(side)
    /\ pre.pieces[KingStart(last.color)] = King(last.color, 0)
    /\ pre.pieces[Crossed(last.color, side)] = NoPiece
    /\ pre.pieces[Landing(last.color, side)] = NoPiece
    /\ pre.pieces[Corner(last.color, side)] # Rook(last.color, 0)
    /\ ~CastleSquareAttacked(pre, last.color, side)
    /\ HasEscape(pre, last.color)

\* C28: a castling attempt whose rook corner is empty, holds a rook that
\* has moved or holds any other piece fails with BadCastle, and the corner
\* and every other square hold afterwards what they held before.
CastleWithoutRookIsBadCastle ==
    \A side \in {-1, 1} :
        CastleWithoutRook(side) => (last.res = "BadCastle" /\ pieces = pre.pieces)

\* C29: castling never succeeds when the king is in check on its start
\* square, when the square it crosses is attacked or when the square it
\* lands on is attacked, whatever the error of the rejection.
NoCastlingThroughAttack ==
    \A side \in {-1, 1} :
        (/\ CastleCall(side)
         /\ pre.pieces[KingStart(last.color)].kind = "King"
         /\ pre.pieces[KingStart(last.color)].color = last.color
         /\ CastleSquareAttacked(pre, last.color, side))
            => last.res # "Ok"

\* The step is a successful call that runs the king of its color two files
\* along its rank.
KingRanTwoFiles ==
    /\ last'.res = "Ok"
    /\ pieces[last'.from].kind = "King" /\ pieces[last'.from].color = last'.color
    /\ Rank(last'.to) = Rank(last'.from)
    /\ Abs(File(last'.to) - File(last'.from)) = 2

\* C30: once a king has made a successful move, no later two-square move of
\* the king of that color succeeds, and once a rook has made a successful
\* move no later castling toward its corner succeeds, even if king or rook
\* is back on its original square.
CastlingRightsStayLost ==
    [][KingRanTwoFiles =>
           /\ KingStart(last'.color) \notin moved
           /\ Pos(IF File(last'.to) > File(last'.from) THEN 7 ELSE 0, Rank(last'.from))
                  \notin moved]_vars

\* A king that had moved and come back to its start was asked to run two
\* files, and the call failed.
ReturnedKingWitness ==
    /\ Called /\ last.res # "Ok"
    /\ last.from = KingStart(last.color)
    /\ pre.pieces[last.from].kind = "King" /\ pre.pieces[last.from].color = last.color
    /\ KingTwoFiles
    /\ KingStart(last.color) \in moved

----------------------------------------------------------------------------
(* Castling on the queen's side, counters, kings and the piece census *)

\* The latest call succeeded and ran the king of its color two files toward
\* the a-file.
CastledQueenSide ==
    /\ Called /\ last.res = "Ok"
    /\ KingTwoFiles /\ pre.pieces[last.from].color = last.color
    /\ File(last.to) < File(last.from)

\* C31: castling on the queen's side succeeds only if the three squares
\* between king and rook, on the b, c and d files, were all empty.
QueenSideNeedsEmptyFiles ==
    CastledQueenSide =>
        \A f \in {1, 2, 3} : pre.pieces[Pos(f, Rank(last.from))] = NoPiece

\* The squares a piece of that kind and color stands on in the new board.
StartSquares(piece) ==
    { p \in Squares : BoardNew.pieces[p].kind = piece.kind
                      /\ BoardNew.pieces[p].color = piece.color }

\* Every pawn, rook or king with counter 0 stands on a square its kind
\* starts on, and no king or rook has left that square since the new board.
ZeroCounterNeverMoved ==
    \A p \in Squares :
        (HasCounter(pieces[p]) /\ pieces[p].counter = 0) =>
            (p \in StartSquares(pieces[p]) /\ p \notin moved)

\* The square the rook of the latest call's castling lands on, and its corner.
RookLanding == Pos(IF File(last.to) > File(last.from) THEN 5 ELSE 3, Rank(last.from))

RookCorner == Pos(IF File(last.to) > File(last.from) THEN 7 ELSE 0, Rank(last.from))

\* C32: a pawn, rook or king with move counter 0 has never been relocated,
\* and a successful advance raises by exactly 1 the counter of every pawn,
\* rook or king it relocates, the castling rook included, and leaves every
\* other counter as it was.
CountersFollowMoves ==
    /\ ZeroCounterNeverMoved
    /\ (Called /\ last.res = "Ok") =>
           /\ HasCounter(pieces[last.to]) =>
                  pieces[last.to].counter = pre.pieces[last.from].counter + 1
           /\ (KingTwoFiles /\ pieces[RookLanding].kind = "Rook"
                   /\ pieces[RookCorner] = NoPiece /\ pre.pieces[RookCorner].kind = "Rook") =>
                  pieces[RookLanding].counter = pre.pieces[RookCorner].counter + 1
           /\ \A p \in Squares \ TouchedSquares : pieces[p].counter = pre.pieces[p].counter

\* C33: in every state reached through Game.advance and reset_turn calls
\* each color has exactly one king on the board, and no call of
\* Board::advance made by the game ends with NoKing.
OneKingEach ==
    /\ \A color \in Colors : Cardinality(king(Current, color)) = 1
    /\ last.res # "NoKing"

Kinds == {"Pawn", "Knight", "Bishop", "Rook", "Queen", "King"}

\* How many pieces of that kind and color stand on the placement ps.
Census(ps, kind, color) ==
    Cardinality({ p \in Squares : ps[p].kind = kind /\ ps[p].color = color })

\* The latest call moved a pawn of its color onto its farthest rank.
PromotingCall ==
    /\ pre.pieces[last.from].kind = "Pawn" /\ pre.pieces[last.from].color = last.color
    /\ Rank(last.to) = FarthestRank(last.color)

\* C34: a failed call leaves the number of pieces of every kind and color
\* as it was; a successful call keeps the mover's pieces, except that a
\* promotion turns one pawn into one queen, and takes at most one piece
\* from the other color and adds none.
CensusContract ==
    Called =>
        IF last.res # "Ok"
        THEN \A kind \in Kinds, color \in Colors :
                 Census(pieces, kind, color) = Census(pre.pieces, kind, color)
        ELSE /\ \A kind \in Kinds :
                    Census(pieces, kind, last.color)
                        = Census(pre.pieces, kind, last.color)
                              + (IF PromotingCall /\ kind = "Queen" THEN 1
                                 ELSE IF PromotingCall /\ kind = "Pawn" THEN -1 ELSE 0)
             /\ \A kind \in Kinds :
                    Census(pieces, kind, Opposite(last.color))
                        <= Census(pre.pieces, kind, Opposite(last.color))
             /\ Cardinality(Occupied(Current)) >= Cardinality(Occupied(pre)) - 1

----------------------------------------------------------------------------
(* The move cache and panics *)

\* The cache holds the entry of the move the latest call committed.
CommittedEntry ==
    \E c \in cache : c.from = last.from /\ c.to = last.to

\* C35: every simulated move inside advance is reverted by the revert that
\* follows its own update: advance never returns EmptyMoveCache, a failed
\* call leaves no entry of a simulation alive (the cache is empty, or
\* untouched when nothing was simulated), and after a successful call the
\* only entry alive is the one of the committed move.
SimulationsAreReverted ==
    Called =>
        /\ last.res # "EmptyMoveCache"
        /\ IF last.res = "Ok" THEN CommittedEntry
           ELSE cache = None \/ cache = pre.cache

\* A call failed at the self-check guard, after the simulations of the
\* no-legal-moves search and of the guard overwrote the entry of the move
\* committed before, and left the cache empty.
SimulationsWitness ==
    /\ Called /\ last.res = "InCheck"
    /\ pre.cache # None /\ cache = None
    /\ pieces = pre.pieces

\* C36: no call of Board::advance, made directly or by Game::advance, with
\* squares on the board ends in a panic: no square off the board is
\* constructed, no unsigned subtraction underflows in the path generator or
\* in the en-passant resolution, and no move counter at 0 is decremented.
AdvanceNeverPanics == last.res # "Panic"

\* A successful call ran a bishop or queen at least two squares down and to
\* the left: both subtractions of path_down_left were computed, in the call
\* and in the simulations before it.
SubtractionsWitness ==
    /\ Called /\ last.res = "Ok"
    /\ File(last.to) < File(last.from) /\ Rank(last.to) < Rank(last.from) - 1
    /\ pre.pieces[last.from].kind \in {"Bishop", "Queen"}

----------------------------------------------------------------------------
(* The pure functions *)

\* A run of one step, straight or diagonal.
OneStep(mv) == mv.shape \in {"Straight", "Diagonal"} /\ mv.steps = 1

\* The vertical direction a pawn of that color advances in.
ForwardDirection(color) == IF color = "White" THEN "Up" ELSE "Down"

\* The moves the rules let a piece make, by kind.
Accepted(piece, mv) ==
    CASE piece.kind = "Knight" -> mv.shape = "Jump"
      [] piece.kind = "Bishop" -> mv.shape = "Diagonal"
      [] piece.kind = "Rook" -> mv.shape = "Straight"
      [] piece.kind = "Queen" -> mv.shape = "Straight" \/ mv.shape = "Diagonal"
      [] piece.kind = "King" ->
             \/ OneStep(mv)
             \/ /\ mv.shape = "Straight" /\ mv.d1 \in {"Left", "Right"} /\ mv.steps = 2
                /\ mv.action = "Regular" /\ piece.counter = 0
      [] piece.kind = "Pawn" ->
             \/ /\ mv.shape = "Straight" /\ mv.d1 = ForwardDirection(piece.color)
                /\ mv.action = "Regular"
                /\ (mv.steps = 1 \/ (mv.steps = 2 /\ piece.counter = 0))
             \/ /\ mv.shape = "Diagonal" /\ mv.d1 = ForwardDirection(piece.color)
                /\ mv.steps = 1 /\ mv.action = "Capture"

\* C37: can_reach accepts exactly the moves the rules let the piece make
\* (knight: any jump; bishop: any diagonal run; rook: any straight run;
\* queen: either; king: any one-step run with either action, and a
\* two-square run left or right only as a regular action with counter 0;
\* pawn: one step forward as a regular action, two with counter 0, one step
\* diagonally forward only as a capture) and answers UnreachableField to
\* every other move.
CanReachContract ==
    answer.op = "can_reach" =>
        answer.r = IF Accepted(probe.piece, probe.mv) THEN "Ok" ELSE "UnreachableField"

\* can_reach let an unmoved king run two squares to the left.
CanReachWitness ==
    /\ answer.op = "can_reach" /\ answer.r = "Ok"
    /\ probe.piece = King("White", 0)
    /\ probe.mv = Straight("Left", 2, "Regular")

\* The move the rules name for a displacement of df files and dr ranks.
Expected(df, dr, tag) ==
    IF df = 0 /\ dr # 0
    THEN Straight(IF dr > 0 THEN "Up" ELSE "Down", Abs(dr), tag)
    ELSE IF dr = 0 /\ df # 0
    THEN Straight(IF df > 0 THEN "Right" ELSE "Left", Abs(df), tag)
    ELSE IF Abs(df) = Abs(dr) /\ df # 0
    THEN Diagonal(IF dr > 0 THEN "Up" ELSE "Down", IF df > 0 THEN "Right" ELSE "Left",
                  Abs(df), tag)
    ELSE IF <<Abs(df), Abs(dr)>> \in {<<1, 2>>, <<2, 1>>}
    THEN Jump(tag)
    ELSE Invalid

\* C38: for every pair of squares and every action, Move::new returns a
\* straight run with the right direction and length when exactly one delta
\* is zero, a diagonal run of length |file| in the right quadrant when the
\* deltas are equal in size and not zero, a jump for (1,2) and (2,1), and
\* Invalid otherwise, from = to included; the action is passed through.
ClassifierContract ==
    answer.op = "new" =>
        answer.mv = Expected(File(probe.to) - File(probe.from),
                             Rank(probe.to) - Rank(probe.from), probe.action)

\* Move::new classified e5 to b8 as a capture three steps up and left.
ClassifierWitness ==
    /\ answer.op = "new"
    /\ probe.from = Pos(4, 4) /\ probe.to = Pos(1, 7) /\ probe.action = "Capture"
    /\ answer.mv = Diagonal("Up", "Left", 3, "Capture")

\* The files and the ranks one step of the run mv goes.
FileStep(mv) ==
    IF "Right" \in {mv.d1, mv.d2} THEN 1 ELSE IF "Left" \in {mv.d1, mv.d2} THEN -1 ELSE 0

RankStep(mv) ==
    IF mv.d1 = "Up" THEN 1 ELSE IF mv.d1 = "Down" THEN -1 ELSE 0

\* The run mv from origin ends on a square of the board.
EndsOnBoard(origin, mv) ==
    /\ File(origin) + mv.steps * FileStep(mv) \in Files
    /\ Rank(origin) + mv.steps * RankStep(mv) \in Ranks

\* C39: for a straight or diagonal run of length n from an origin, in each
\* of the eight directions, path returns exactly the n - 1 squares strictly
\* between origin and destination, from the one next to the origin to the
\* one next to the destination; for a jump it returns the empty sequence
\* and for an invalid move it fails with InvalidPath.
PathContract ==
    answer.op = "path" =>
        CASE probe.mv.shape = "Jump" -> answer.pth = [r |-> "Ok", v |-> << >>]
          [] probe.mv.shape = "Invalid" -> answer.pth.r = "InvalidPath"
          [] probe.mv.shape \in {"Straight", "Diagonal"} /\ EndsOnBoard(probe.from, probe.mv) ->
                 /\ answer.pth.r = "Ok"
                 /\ Len(answer.pth.v) = probe.mv.steps - 1
                 /\ \A i \in 1 .. probe.mv.steps - 1 :
                        answer.pth.v[i] = Pos(File(probe.from) + i * FileStep(probe.mv),
                                              Rank(probe.from) + i * RankStep(probe.mv))
          [] OTHER -> TRUE

\* path returned (3,5), (2,6) for the run of three squares up and left
\* from (4,4).
PathWitness ==
    /\ answer.op = "path"
    /\ probe.from = Pos(4, 4) /\ probe.mv = Diagonal("Up", "Left", 3, "Regular")
    /\ answer.pth = [r |-> "Ok", v |-> << Pos(3, 5), Pos(2, 6) >>]

\* The squares of the whole board that the capability predicate of piece
\* accepts from origin: the move to each is classified as a regular action
\* and, for a pawn, as a capture as well.
AcceptedSquares(piece, origin) ==
    { to \in Squares :
        \/ \E mv \in {MoveNew(origin, to, "Regular")} : can_reach(piece, mv) = "Ok"
        \/ /\ piece.kind = "Pawn"
           /\ \E mv \in {MoveNew(origin, to, "Capture")} : can_reach(piece, mv) = "Ok" }

\* C40: all_moves(origin) of a piece returns exactly the squares, among all
\* 64 squares of the board, whose classified move from origin the
\* capability predicate of the piece accepts (for a pawn under the regular
\* action or under the capture action); obstruction and self-check play no
\* part.
AllMovesContract ==
    answer.op = "all_moves" =>
        answer.squares = AcceptedSquares(probe.piece, probe.from)

\* all_moves of a rook on a1 returned no square, though the predicate
\* accepts the fourteen squares of the a-file and of the first rank.
AllMovesMissesSquares ==
    /\ answer.op = "all_moves"
    /\ probe.piece.kind = "Rook" /\ probe.from = Pos(0, 0)
    /\ answer.squares = {}
    /\ Cardinality(AcceptedSquares(probe.piece, probe.from)) = 14

====
